---- MODULE Spec2Model ----
(***************************************************************************)
(* State-machine model of the GISO Invest authentication / data backend.   *)
(*                                                                         *)
(* Storage is the relational database behind SQLAlchemy: the user table    *)
(* and the property, portfolio and report tables.  Every Flask handler is  *)
(* one action: it reads the request, runs its unit of work on the session  *)
(* and either commits or rolls back, and leaves its response in resp.      *)
(* req is the client's log of the request it sent last; a specification    *)
(* writes it beside the handler it calls.                                  *)
(*                                                                         *)
(* Time is counted in ticks of 24 / TicksPerDay hours.                     *)
(***************************************************************************)
EXTENDS Integers, Sequences, FiniteSets, TLC

VARIABLES
    users,   \* user table: account id -> row (src/models/user.py)
    now,     \* datetime.utcnow(), in ticks
    props,   \* property table: set of rows
    ports,   \* portfolio table: set of rows
    reps,    \* report table: set of rows
    inflight,\* the requests being served step by step: slot -> position and session
    req,     \* the client's log of its last request
    resp     \* the response to the last request

vars == <<users, now, props, ports, reps, inflight, req, resp>>

(***************************************************************************)
(* Bounds of the model                                                     *)
(***************************************************************************)
MaxBatch == 2        \* longest payload list of a single-kind migrate request
MaxDays == 9         \* the clock stops after this many days
TicksPerDay == 2     \* clock resolution

(***************************************************************************)
(* JSON values.  A JSON object is a function whose DOMAIN is its keys, so  *)
(* 'k' in d is  "k" \in DOMAIN d.  JSON null (Python None) is Null for a    *)
(* string-valued field and NoUserId for a user id.                         *)
(***************************************************************************)
Null == "<null>"
NoUserId == 0

Users == {1, 2}                 \* ids of the registered accounts
Ids == {"e1", "e2"}             \* entity ids a client may hold
ShareIds == {"s1"}              \* share ids a client may hold

MaxPackages == 2                \* deal packages in one portfolio body

RECURSIVE SeqsUpTo(_, _)
SeqsUpTo(S, n) ==
    IF n = 0 THEN {<<>>}
    ELSE LET shorter == SeqsUpTo(S, n - 1)
         IN  shorter \cup {Append(s, x) : s \in {t \in shorter : Len(t) = n - 1}, x \in S}

\* the objects of S, each also with key k set to a value of V
WithKey(S, k, V) ==
    {[x \in DOMAIN d \cup {k} |-> IF x = k THEN v ELSE d[x]] : d \in S, v \in V}

Optional(S, k, V) == S \cup WithKey(S, k, V)

\* dict.get(k) and dict.get(k, default)
Get(d, k, default) == IF k \in DOMAIN d THEN d[k] ELSE default

(***************************************************************************)
(* Faulty variants of definitions below; each property of the last section *)
(* is expected to fail when the variant stands in for the original.        *)
(***************************************************************************)
\* a skip that is not counted
SkipUncounted(acc) == acc

\* a lookup by id alone, forgetting the owner
FilterById(tbl, id, uid) == {r \in tbl : r.id = id}

\* an import that trusts the payload's user_id
KeepPayloadOwner(row, uid) == row

\* an insert whose failure is swallowed: the row is dropped, the work goes on
AddOrDrop(acc, row, ok) ==
    IF ok THEN [acc EXCEPT !.tbl = @ \cup {row}, !.imported = @ + 1] ELSE acc

(***************************************************************************)
(* Account entity (src/models/user.py)                                     *)
(***************************************************************************)
TrialDays == 7
TokenDays == 30
BillingDays == 30
NoDate == -1                    \* a DateTime column that is NULL
Days(n) == n * TicksPerDay

\* werkzeug generate_password_hash / check_password_hash
generate_password_hash(password) == <<"hash", password>>
check_password_hash(hash, password) == hash = <<"hash", password>>

\* User.__init__ at time t: set_password, initialize_trial, column defaults
User(username, email, password, t) ==
    [username |-> username,
     email |-> email,
     password_hash |-> generate_password_hash(password),
     trial_start_date |-> t,
     trial_end_date |-> t + Days(TrialDays),
     trial_days_used |-> 0,
     trial_status |-> "active",
     trial_active |-> TRUE,
     subscription_plan |-> "trial",
     subscription_status |-> "trial_active",
     plan |-> "trial",
     payment_required |-> FALSE,
     subscription_start_date |-> NoDate,
     last_payment_date |-> NoDate,
     next_billing_date |-> NoDate,
     last_login |-> NoDate,
     last_trial_check |-> t]

\* the row /auth/register stores: User(...), then update_last_login()
Registered(username, email, password, t) ==
    [User(username, email, password, t) EXCEPT !.last_login = t]

Max(a, b) == IF a >= b THEN a ELSE b
HoursPerTick == 24 \div TicksPerDay

\* the subscription the status computation counts as paid
has_paid_subscription(self) ==
    self.subscription_status = "active" /\ self.subscription_plan \notin {"trial", "free"}

\* faulty variant: the status read off the stored flags, the clock ignored
StatusFromStoredFlags(self, t) ==
    [is_on_trial |-> self.trial_active, is_expired |-> ~self.trial_active,
     days_remaining |-> Max(0, TrialDays - self.trial_days_used),
     hours_remaining |-> 24 * Max(0, TrialDays - self.trial_days_used),
     trial_end_date |-> self.trial_end_date,
     can_access |-> self.trial_active \/ has_paid_subscription(self),
     payment_required |-> self.payment_required,
     has_paid_subscription |-> has_paid_subscription(self)]

\* User.calculate_trial_status at time t; time_remaining is a timedelta, whose
\* .days is the floor and whose total_seconds() / 3600 is cut towards zero
calculate_trial_status(self, t) ==
    IF self.trial_start_date = NoDate
    THEN [is_on_trial |-> FALSE, is_expired |-> TRUE,
          days_remaining |-> 0, hours_remaining |-> 0, trial_end_date |-> NoDate,
          can_access |-> FALSE, payment_required |-> TRUE,
          has_paid_subscription |-> FALSE]
    ELSE LET trial_end == IF self.trial_end_date # NoDate THEN self.trial_end_date
                          ELSE self.trial_start_date + Days(TrialDays)
             time_remaining == trial_end - t
             days_remaining == Max(0, time_remaining \div TicksPerDay)
             hours_remaining == Max(0, time_remaining * HoursPerTick)
             is_expired == time_remaining <= 0
             is_on_trial == ~is_expired /\ self.trial_active
         IN  [is_on_trial |-> is_on_trial, is_expired |-> is_expired,
              days_remaining |-> days_remaining, hours_remaining |-> hours_remaining,
              trial_end_date |-> trial_end,
              can_access |-> is_on_trial \/ has_paid_subscription(self),
              payment_required |-> is_expired /\ ~has_paid_subscription(self),
              has_paid_subscription |-> has_paid_subscription(self)]

\* faulty variant: the status columns refreshed, the check not recorded
UpdateStatusOnly(self, t) ==
    LET trial_status == calculate_trial_status(self, t)
    IN  IF trial_status.is_expired /\ ~trial_status.has_paid_subscription
        THEN [self EXCEPT !.subscription_status = "trial_expired",
                          !.trial_active = FALSE,
                          !.trial_status = "expired",
                          !.payment_required = TRUE]
        ELSE self

\* User.update_trial_status at time t: the row it leaves
update_trial_status(self, t) ==
    LET trial_status == calculate_trial_status(self, t)
        checked == [self EXCEPT !.trial_days_used = TrialDays - trial_status.days_remaining,
                                !.payment_required = trial_status.payment_required,
                                !.last_trial_check = t]
    IN  IF trial_status.is_expired /\ ~trial_status.has_paid_subscription
        THEN [checked EXCEPT !.subscription_status = "trial_expired",
                             !.trial_active = FALSE,
                             !.trial_status = "expired"]
        ELSE IF trial_status.is_on_trial
        THEN [checked EXCEPT !.subscription_status = "trial_active",
                             !.trial_status = "active"]
        ELSE checked

\* User.start_subscription(plan_id) at time t
start_subscription(self, plan_id, t) ==
    [self EXCEPT !.subscription_status = "active",
                 !.subscription_plan = plan_id,
                 !.plan = plan_id,
                 !.trial_active = FALSE,
                 !.payment_required = FALSE,
                 !.subscription_start_date = t,
                 !.last_payment_date = t,
                 !.next_billing_date = t + Days(BillingDays)]

\* User.cancel_subscription
User_cancel_subscription(self) ==
    [self EXCEPT !.subscription_status = "cancelled",
                 !.subscription_plan = "free",
                 !.plan = "free",
                 !.payment_required = FALSE,
                 !.trial_active = FALSE]

(***************************************************************************)
(* Token service (src/models/user.py)                                      *)
(***************************************************************************)
SECRET_KEY == "giso-invest-auth-secret-key-2024"

\* jwt.encode(payload, secret_key): a token is its payload and the key that signed it
generate_jwt_token(uid, t) ==
    [user_id |-> uid, exp |-> t + Days(TokenDays), iat |-> t, key |-> SECRET_KEY]

\* faulty variant: the signature checked, the expiry not
VerifySignatureOnly(token) ==
    IF token.key = SECRET_KEY /\ Get(token, "user_id", NoUserId) \in DOMAIN users
    THEN token.user_id ELSE NoUserId

\* jwt.decode (PyJWT 2: the token has expired once exp <= now), then
\* User.query.get(user_id); every failure is "no account" (NoUserId)
verify_jwt_token(token) ==
    IF token.key # SECRET_KEY THEN NoUserId                        \* InvalidTokenError
    ELSE IF "exp" \in DOMAIN token /\ token.exp <= now THEN NoUserId  \* ExpiredSignatureError
    ELSE IF Get(token, "user_id", NoUserId) = NoUserId THEN NoUserId  \* if not user_id
    ELSE IF token.user_id \in DOMAIN users THEN token.user_id
    ELSE NoUserId                                                  \* query.get -> None

\* faulty variant: the token taken from a header of any scheme
TokenOfAnyScheme(hdr) ==
    IF "Authorization" \notin DOMAIN hdr THEN NoUserId
    ELSE verify_jwt_token(hdr.Authorization.token)

\* the Authorization header is [scheme, token]; a request without one is <<>>
get_user_from_token(hdr) ==
    IF "Authorization" \notin DOMAIN hdr \/ hdr.Authorization.scheme # "Bearer"
    THEN NoUserId
    ELSE verify_jwt_token(hdr.Authorization.token)

Bearer(token) == [Authorization |-> [scheme |-> "Bearer", token |-> token]]

(***************************************************************************)
(* Entities (src/models/data): from_dict builds a row from a payload.      *)
(***************************************************************************)
Property_from_dict(data) ==
    [id |-> Get(data, "id", Null),
     user_id |-> Get(data, "user_id", NoUserId),
     address |-> Get(data, "address", Null)]

\* json.dumps / json.loads of the deal packages column
json_dumps(value) == <<"json", value>>
json_loads(text) == text[2]

\* Portfolio.deal_packages (getter)
deal_packages(self) ==
    IF self.deal_packages_json = Null THEN <<>> ELSE json_loads(self.deal_packages_json)

NullRoi == -1                   \* a roi that is JSON null

RECURSIVE Gcd(_, _)
Gcd(a, b) == IF b = 0 THEN a ELSE Gcd(b, a % b)

\* total / count as a float: the fraction in lowest terms
Quotient(total, count) ==
    [num |-> total \div Gcd(total, count), den |-> count \div Gcd(total, count)]

Zero == Quotient(0, 1)

RECURSIVE SumTotalValue(_, _)
SumTotalValue(packages, i) ==
    IF i > Len(packages) THEN 0
    ELSE Get(packages[i], "totalValue", 0) + SumTotalValue(packages, i + 1)

RECURSIVE SumProperties(_, _)
SumProperties(packages, i) ==
    IF i > Len(packages) THEN 0
    ELSE Len(Get(packages[i], "properties", <<>>)) + SumProperties(packages, i + 1)

\* the roi values the inner loop adds up, package after package
RECURSIVE RoiOf(_, _)
RoiOf(properties, j) ==
    IF j > Len(properties) THEN <<>>
    ELSE (IF "roi" \in DOMAIN properties[j] /\ properties[j].roi # NullRoi
          THEN <<properties[j].roi>> ELSE <<>>) \o RoiOf(properties, j + 1)

RECURSIVE RoiValues(_, _)
RoiValues(packages, i) ==
    IF i > Len(packages) THEN <<>>
    ELSE RoiOf(Get(packages[i], "properties", <<>>), 1) \o RoiValues(packages, i + 1)

RECURSIVE SumSeq(_, _)
SumSeq(values, i) == IF i > Len(values) THEN 0 ELSE values[i] + SumSeq(values, i + 1)

\* faulty variant: the statistics left as they are stored
KeepStoredStats(self) == self

\* Portfolio.calculate_stats: the three columns it writes
calculate_stats(self) ==
    LET packages == deal_packages(self)
        roi == RoiValues(packages, 1)
    IN  IF packages = <<>>
        THEN [self EXCEPT !.total_value = 0, !.total_properties = 0, !.avg_roi = Zero]
        ELSE [self EXCEPT !.total_value = SumTotalValue(packages, 1),
                          !.total_properties = SumProperties(packages, 1),
                          !.avg_roi = IF Len(roi) > 0
                                      THEN Quotient(SumSeq(roi, 1), Len(roi)) ELSE Zero]

\* Portfolio(...): a new row with the column defaults
Portfolio(id, user_id, name, share_id, is_public) ==
    [id |-> id, user_id |-> user_id, name |-> name,
     share_id |-> share_id, is_public |-> is_public,
     deal_packages_json |-> Null,
     total_value |-> 0, total_properties |-> 0, avg_roi |-> Zero]

set_deal_packages(self, packages) ==
    [self EXCEPT !.deal_packages_json = json_dumps(packages)]

Portfolio_from_dict(data) ==
    LET portfolio == Portfolio(Get(data, "id", Null), Get(data, "user_id", NoUserId),
                               Get(data, "name", Null), Get(data, "share_id", Null),
                               Get(data, "is_public", FALSE))
    IN  calculate_stats(IF "deal_packages" \in DOMAIN data
                        THEN set_deal_packages(portfolio, data.deal_packages)
                        ELSE portfolio)

Report_from_dict(data) ==
    [id |-> Get(data, "id", Null),
     user_id |-> Get(data, "user_id", NoUserId),
     title |-> Get(data, "title", Null)]

\* the row built for an import: from_dict, then "Ensure correct user ID"
WithOwner(row, uid) == [row EXCEPT !.user_id = uid]

\* Schema constraints checked when a row is flushed: primary key id,
\* NOT NULL columns, and the unique share_id of a portfolio.
PropertyInsertOk(tbl, row) ==
    /\ row.id # Null
    /\ \A r \in tbl : r.id # row.id
    /\ row.user_id # NoUserId
    /\ row.address # Null

PortfolioInsertOk(tbl, row) ==
    /\ row.id # Null
    /\ \A r \in tbl : r.id # row.id
    /\ row.user_id # NoUserId
    /\ row.name # Null
    /\ row.share_id # Null => \A r \in tbl : r.share_id # row.share_id

ReportInsertOk(tbl, row) ==
    /\ row.id # Null
    /\ \A r \in tbl : r.id # row.id
    /\ row.user_id # NoUserId
    /\ row.title # Null

\* Model.query.filter_by(id=id, user_id=user.id).first(): the matching rows
FilterByIdAndUser(tbl, id, uid) == {r \in tbl : r.id = id /\ r.user_id = uid}

(***************************************************************************)
(* The import loops.  acc is the unit of work so far: tbl is the table as  *)
(* the session sees it (SQLAlchemy autoflushes pending rows before each    *)
(* query and at commit), raised says that a flush raised.  One call is one *)
(* iteration of the for loop.                                              *)
(***************************************************************************)
Begin(tbl) == [tbl |-> tbl, imported |-> 0, skipped |-> 0, raised |-> FALSE]

Skip(acc) == [acc EXCEPT !.skipped = @ + 1]

Add(acc, row, ok) ==
    IF ok THEN [acc EXCEPT !.tbl = @ \cup {row}, !.imported = @ + 1]
    ELSE [acc EXCEPT !.raised = TRUE]

\* faulty variant: a payload without id or address raises instead of being
\* skipped
ImportPropertyOrRaise(acc, uid, property_data) ==
    IF acc.raised THEN acc
    ELSE IF "id" \notin DOMAIN property_data \/ "address" \notin DOMAIN property_data
    THEN [acc EXCEPT !.raised = TRUE]
    ELSE IF FilterByIdAndUser(acc.tbl, property_data.id, uid) # {}
    THEN Skip(acc)
    ELSE LET property == [id |-> property_data.id, user_id |-> uid,
                          address |-> property_data.address]
         IN  Add(acc, property, \A r \in acc.tbl : r.id # property.id)

\* faulty variant: the existence query does not see the rows added earlier
\* in the same request, so a repeated id is added again
ImportPropertyUnflushed(acc, uid, property_data) ==
    IF acc.raised THEN acc
    ELSE IF "id" \notin DOMAIN property_data \/ "address" \notin DOMAIN property_data
    THEN Skip(acc)
    ELSE [acc EXCEPT !.tbl = @ \cup {[id |-> property_data.id, user_id |-> uid,
                                      address |-> property_data.address]},
                     !.imported = @ + 1]

ImportProperty(acc, uid, property_data) ==
    IF acc.raised THEN acc
    ELSE IF "id" \notin DOMAIN property_data \/ "address" \notin DOMAIN property_data
    THEN Skip(acc)
    ELSE IF FilterByIdAndUser(acc.tbl, property_data.id, uid) # {}
    THEN Skip(acc)
    ELSE LET property == WithOwner(Property_from_dict(property_data), uid)
         IN  Add(acc, property, PropertyInsertOk(acc.tbl, property))

ImportPortfolio(acc, uid, portfolio_data) ==
    IF acc.raised THEN acc
    ELSE IF "id" \notin DOMAIN portfolio_data \/ "name" \notin DOMAIN portfolio_data
    THEN Skip(acc)
    ELSE IF FilterByIdAndUser(acc.tbl, portfolio_data.id, uid) # {}
    THEN Skip(acc)
    ELSE LET portfolio == WithOwner(Portfolio_from_dict(portfolio_data), uid)
         IN  Add(acc, portfolio, PortfolioInsertOk(acc.tbl, portfolio))

ImportReport(acc, uid, report_data) ==
    IF acc.raised THEN acc
    ELSE IF "id" \notin DOMAIN report_data \/ "title" \notin DOMAIN report_data
    THEN Skip(acc)
    ELSE IF FilterByIdAndUser(acc.tbl, report_data.id, uid) # {}
    THEN Skip(acc)
    ELSE LET report == WithOwner(Report_from_dict(report_data), uid)
         IN  Add(acc, report, ReportInsertOk(acc.tbl, report))

RECURSIVE ImportProperties(_, _, _, _)
ImportProperties(acc, uid, properties, i) ==
    IF i > Len(properties) THEN acc
    ELSE ImportProperties(ImportProperty(acc, uid, properties[i]), uid, properties, i + 1)

RECURSIVE ImportPortfolios(_, _, _, _)
ImportPortfolios(acc, uid, portfolios, i) ==
    IF i > Len(portfolios) THEN acc
    ELSE ImportPortfolios(ImportPortfolio(acc, uid, portfolios[i]), uid, portfolios, i + 1)

RECURSIVE ImportReports(_, _, _, _)
ImportReports(acc, uid, reports, i) ==
    IF i > Len(reports) THEN acc
    ELSE ImportReports(ImportReport(acc, uid, reports[i]), uid, reports, i + 1)

(***************************************************************************)
(* Property handlers (src/routes/property.py)                              *)
(***************************************************************************)
Unauthorized(op) == [op |-> op, status |-> 401, user_id |-> NoUserId]

\* str.strip() on the strings the model sends
Strip(s) ==
    CASE s = " b " -> "b" [] s = " alice " -> "alice" [] s = " " -> "" [] OTHER -> s

create_property(hdr, data, uuid) ==
    LET uid == get_user_from_token(hdr)
        address == Strip(Get(data, "address", ""))
        property == [id |-> uuid, user_id |-> uid, address |-> address]
    IN  /\ IF uid = NoUserId
           THEN resp' = Unauthorized("create_property") /\ UNCHANGED props
           ELSE IF DOMAIN data = {} \/ address = ""
           THEN /\ resp' = [op |-> "create_property", status |-> 400, user_id |-> uid]
                /\ UNCHANGED props
           ELSE IF ~PropertyInsertOk(props, property)
           THEN \* except Exception: db.session.rollback()
                /\ resp' = [op |-> "create_property", status |-> 500, user_id |-> uid]
                /\ UNCHANGED props
           ELSE /\ props' = props \cup {property}
                /\ resp' = [op |-> "create_property", status |-> 201, user_id |-> uid,
                            property |-> property]
        /\ UNCHANGED <<users, now, ports, reps>>

get_property(hdr, property_id) ==
    LET uid == get_user_from_token(hdr)
        found == FilterByIdAndUser(props, property_id, uid)
    IN  /\ resp' = IF uid = NoUserId THEN Unauthorized("get_property")
                   ELSE IF found = {}
                   THEN [op |-> "get_property", status |-> 404, user_id |-> uid]
                   ELSE [op |-> "get_property", status |-> 200, user_id |-> uid,
                         property |-> CHOOSE r \in found : TRUE]
        /\ UNCHANGED <<users, now, props, ports, reps>>

update_property(hdr, property_id, data) ==
    LET uid == get_user_from_token(hdr)
        found == FilterByIdAndUser(props, property_id, uid)
        old == CHOOSE r \in found : TRUE
        new == IF "address" \in DOMAIN data
               THEN [old EXCEPT !.address = Strip(data.address)] ELSE old
    IN  /\ IF uid = NoUserId
           THEN resp' = Unauthorized("update_property") /\ UNCHANGED props
           ELSE IF found = {}
           THEN /\ resp' = [op |-> "update_property", status |-> 404, user_id |-> uid]
                /\ UNCHANGED props
           ELSE IF DOMAIN data = {}
           THEN /\ resp' = [op |-> "update_property", status |-> 400, user_id |-> uid]
                /\ UNCHANGED props
           ELSE /\ props' = (props \ {old}) \cup {new}
                /\ resp' = [op |-> "update_property", status |-> 200, user_id |-> uid,
                            property |-> new]
        /\ UNCHANGED <<users, now, ports, reps>>

delete_property(hdr, property_id) ==
    LET uid == get_user_from_token(hdr)
        found == FilterByIdAndUser(props, property_id, uid)
    IN  /\ IF uid = NoUserId
           THEN resp' = Unauthorized("delete_property") /\ UNCHANGED props
           ELSE IF found = {}
           THEN /\ resp' = [op |-> "delete_property", status |-> 404, user_id |-> uid]
                /\ UNCHANGED props
           ELSE /\ props' = props \ found
                /\ resp' = [op |-> "delete_property", status |-> 200, user_id |-> uid]
        /\ UNCHANGED <<users, now, ports, reps>>

migrate_properties(hdr, data) ==
    LET uid == get_user_from_token(hdr)
        done == ImportProperties(Begin(props), uid, data.properties, 1)
    IN  /\ IF uid = NoUserId
           THEN resp' = Unauthorized("migrate_properties") /\ UNCHANGED props
           ELSE IF "properties" \notin DOMAIN data
           THEN /\ resp' = [op |-> "migrate_properties", status |-> 400, user_id |-> uid]
                /\ UNCHANGED props
           ELSE IF done.raised
           THEN \* except Exception: db.session.rollback()
                /\ resp' = [op |-> "migrate_properties", status |-> 500, user_id |-> uid]
                /\ UNCHANGED props
           ELSE \* db.session.commit()
                /\ props' = done.tbl
                /\ resp' = [op |-> "migrate_properties", status |-> 200, user_id |-> uid,
                            imported_count |-> done.imported,
                            skipped_count |-> done.skipped]
        /\ UNCHANGED <<users, now, ports, reps>>

(***************************************************************************)
(* Portfolio handlers (src/routes/portfolio.py)                            *)
(***************************************************************************)
create_portfolio(hdr, data, uuid, share_uuid) ==
    LET uid == get_user_from_token(hdr)
        name == Strip(Get(data, "name", ""))
        blank == Portfolio(uuid, uid, name, share_uuid, FALSE)
        portfolio == IF "deal_packages" \in DOMAIN data
                     THEN calculate_stats(set_deal_packages(blank, data.deal_packages))
                     ELSE blank
    IN  /\ IF uid = NoUserId
           THEN resp' = Unauthorized("create_portfolio") /\ UNCHANGED ports
           ELSE IF DOMAIN data = {} \/ name = ""
           THEN /\ resp' = [op |-> "create_portfolio", status |-> 400, user_id |-> uid]
                /\ UNCHANGED ports
           ELSE IF ~PortfolioInsertOk(ports, portfolio)
           THEN \* except Exception: db.session.rollback()
                /\ resp' = [op |-> "create_portfolio", status |-> 500, user_id |-> uid]
                /\ UNCHANGED ports
           ELSE /\ ports' = ports \cup {portfolio}
                /\ resp' = [op |-> "create_portfolio", status |-> 201, user_id |-> uid,
                            portfolio |-> portfolio]
        /\ UNCHANGED <<users, now, props, reps>>

get_portfolio(hdr, portfolio_id) ==
    LET uid == get_user_from_token(hdr)
        found == FilterByIdAndUser(ports, portfolio_id, uid)
    IN  /\ resp' = IF uid = NoUserId THEN Unauthorized("get_portfolio")
                   ELSE IF found = {}
                   THEN [op |-> "get_portfolio", status |-> 404, user_id |-> uid]
                   ELSE [op |-> "get_portfolio", status |-> 200, user_id |-> uid,
                         portfolio |-> CHOOSE r \in found : TRUE]
        /\ UNCHANGED <<users, now, props, ports, reps>>

\* uuid is the fresh value uuid4 draws if the handler needs a share id
update_portfolio(hdr, portfolio_id, data, uuid) ==
    LET uid == get_user_from_token(hdr)
        found == FilterByIdAndUser(ports, portfolio_id, uid)
        old == CHOOSE r \in found : TRUE
        named == IF "name" \in DOMAIN data
                 THEN [old EXCEPT !.name = Strip(data.name)] ELSE old
        shared == IF "is_public" \in DOMAIN data
                  THEN [named EXCEPT !.is_public = data.is_public,
                                     !.share_id = IF data.is_public /\ @ = Null
                                                  THEN uuid ELSE @]
                  ELSE named
        new == IF "deal_packages" \in DOMAIN data
               THEN calculate_stats(set_deal_packages(shared, data.deal_packages))
               ELSE shared
    IN  /\ IF uid = NoUserId
           THEN resp' = Unauthorized("update_portfolio") /\ UNCHANGED ports
           ELSE IF found = {}
           THEN /\ resp' = [op |-> "update_portfolio", status |-> 404, user_id |-> uid]
                /\ UNCHANGED ports
           ELSE IF DOMAIN data = {}
           THEN /\ resp' = [op |-> "update_portfolio", status |-> 400, user_id |-> uid]
                /\ UNCHANGED ports
           ELSE /\ ports' = (ports \ {old}) \cup {new}
                /\ resp' = [op |-> "update_portfolio", status |-> 200, user_id |-> uid,
                            portfolio |-> new]
        /\ UNCHANGED <<users, now, props, reps>>

delete_portfolio(hdr, portfolio_id) ==
    LET uid == get_user_from_token(hdr)
        found == FilterByIdAndUser(ports, portfolio_id, uid)
    IN  /\ IF uid = NoUserId
           THEN resp' = Unauthorized("delete_portfolio") /\ UNCHANGED ports
           ELSE IF found = {}
           THEN /\ resp' = [op |-> "delete_portfolio", status |-> 404, user_id |-> uid]
                /\ UNCHANGED ports
           ELSE /\ ports' = ports \ found
                /\ resp' = [op |-> "delete_portfolio", status |-> 200, user_id |-> uid]
        /\ UNCHANGED <<users, now, props, reps>>

\* faulty variant: the portfolio found by its share id alone
SharedByShareId(share_id) ==
    LET found == {r \in ports : r.share_id = share_id}
    IN  /\ resp' = IF found = {}
                   THEN [op |-> "get_shared_portfolio", status |-> 404, user_id |-> NoUserId]
                   ELSE [op |-> "get_shared_portfolio", status |-> 200, user_id |-> NoUserId,
                         portfolio |-> CHOOSE r \in found : TRUE]
        /\ UNCHANGED <<users, now, props, ports, reps>>

\* GET /portfolios/share/<share_id>: no token is read
get_shared_portfolio(share_id) ==
    LET found == {r \in ports : r.share_id = share_id /\ r.is_public = TRUE}
    IN  /\ resp' = IF found = {}
                   THEN [op |-> "get_shared_portfolio", status |-> 404, user_id |-> NoUserId]
                   ELSE [op |-> "get_shared_portfolio", status |-> 200, user_id |-> NoUserId,
                         portfolio |-> CHOOSE r \in found : TRUE]
        /\ UNCHANGED <<users, now, props, ports, reps>>

import_portfolio(hdr, data) ==
    LET uid == get_user_from_token(hdr)
        existing == FilterByIdAndUser(ports, data.id, uid)
        portfolio == WithOwner(Portfolio_from_dict(data), uid)
    IN  /\ IF uid = NoUserId
           THEN resp' = Unauthorized("import_portfolio") /\ UNCHANGED ports
           ELSE IF "id" \notin DOMAIN data \/ "name" \notin DOMAIN data
           THEN /\ resp' = [op |-> "import_portfolio", status |-> 400, user_id |-> uid]
                /\ UNCHANGED ports
           ELSE IF existing # {}
           THEN /\ resp' = [op |-> "import_portfolio", status |-> 409, user_id |-> uid,
                            portfolio |-> CHOOSE r \in existing : TRUE]
                /\ UNCHANGED ports
           ELSE IF ~PortfolioInsertOk(ports, portfolio)
           THEN \* except Exception: db.session.rollback()
                /\ resp' = [op |-> "import_portfolio", status |-> 500, user_id |-> uid]
                /\ UNCHANGED ports
           ELSE /\ ports' = ports \cup {portfolio}
                /\ resp' = [op |-> "import_portfolio", status |-> 201, user_id |-> uid,
                            portfolio |-> portfolio]
        /\ UNCHANGED <<users, now, props, reps>>

migrate_portfolios(hdr, data) ==
    LET uid == get_user_from_token(hdr)
        done == ImportPortfolios(Begin(ports), uid, data.portfolios, 1)
    IN  /\ IF uid = NoUserId
           THEN resp' = Unauthorized("migrate_portfolios") /\ UNCHANGED ports
           ELSE IF "portfolios" \notin DOMAIN data
           THEN /\ resp' = [op |-> "migrate_portfolios", status |-> 400, user_id |-> uid]
                /\ UNCHANGED ports
           ELSE IF done.raised
           THEN /\ resp' = [op |-> "migrate_portfolios", status |-> 500, user_id |-> uid]
                /\ UNCHANGED ports
           ELSE /\ ports' = done.tbl
                /\ resp' = [op |-> "migrate_portfolios", status |-> 200, user_id |-> uid,
                            imported_count |-> done.imported,
                            skipped_count |-> done.skipped]
        /\ UNCHANGED <<users, now, props, reps>>

(***************************************************************************)
(* Report handlers (src/routes/report.py)                                  *)
(***************************************************************************)
create_report(hdr, data, uuid) ==
    LET uid == get_user_from_token(hdr)
        title == Strip(Get(data, "title", ""))
        report == [id |-> uuid, user_id |-> uid, title |-> title]
    IN  /\ IF uid = NoUserId
           THEN resp' = Unauthorized("create_report") /\ UNCHANGED reps
           ELSE IF DOMAIN data = {} \/ title = ""
           THEN /\ resp' = [op |-> "create_report", status |-> 400, user_id |-> uid]
                /\ UNCHANGED reps
           ELSE IF ~ReportInsertOk(reps, report)
           THEN \* except Exception: db.session.rollback()
                /\ resp' = [op |-> "create_report", status |-> 500, user_id |-> uid]
                /\ UNCHANGED reps
           ELSE /\ reps' = reps \cup {report}
                /\ resp' = [op |-> "create_report", status |-> 201, user_id |-> uid,
                            report |-> report]
        /\ UNCHANGED <<users, now, props, ports>>

get_report(hdr, report_id) ==
    LET uid == get_user_from_token(hdr)
        found == FilterByIdAndUser(reps, report_id, uid)
    IN  /\ resp' = IF uid = NoUserId THEN Unauthorized("get_report")
                   ELSE IF found = {}
                   THEN [op |-> "get_report", status |-> 404, user_id |-> uid]
                   ELSE [op |-> "get_report", status |-> 200, user_id |-> uid,
                         report |-> CHOOSE r \in found : TRUE]
        /\ UNCHANGED <<users, now, props, ports, reps>>

delete_report(hdr, report_id) ==
    LET uid == get_user_from_token(hdr)
        found == FilterByIdAndUser(reps, report_id, uid)
    IN  /\ IF uid = NoUserId
           THEN resp' = Unauthorized("delete_report") /\ UNCHANGED reps
           ELSE IF found = {}
           THEN /\ resp' = [op |-> "delete_report", status |-> 404, user_id |-> uid]
                /\ UNCHANGED reps
           ELSE /\ reps' = reps \ found
                /\ resp' = [op |-> "delete_report", status |-> 200, user_id |-> uid]
        /\ UNCHANGED <<users, now, props, ports>>

migrate_reports(hdr, data) ==
    LET uid == get_user_from_token(hdr)
        done == ImportReports(Begin(reps), uid, data.reports, 1)
    IN  /\ IF uid = NoUserId
           THEN resp' = Unauthorized("migrate_reports") /\ UNCHANGED reps
           ELSE IF "reports" \notin DOMAIN data
           THEN /\ resp' = [op |-> "migrate_reports", status |-> 400, user_id |-> uid]
                /\ UNCHANGED reps
           ELSE IF done.raised
           THEN /\ resp' = [op |-> "migrate_reports", status |-> 500, user_id |-> uid]
                /\ UNCHANGED reps
           ELSE /\ reps' = done.tbl
                /\ resp' = [op |-> "migrate_reports", status |-> 200, user_id |-> uid,
                            imported_count |-> done.imported,
                            skipped_count |-> done.skipped]
        /\ UNCHANGED <<users, now, props, ports>>

(***************************************************************************)
(* Combined import (src/routes/data.py).  The three loops run in one       *)
(* session; a flush that raises in one of them ends the request.           *)
(***************************************************************************)
Tally(acc) == [imported |-> acc.imported, skipped |-> acc.skipped]

migrate_all_data(hdr, data) ==
    LET uid == get_user_from_token(hdr)
        p == IF "properties" \in DOMAIN data
             THEN ImportProperties(Begin(props), uid, data.properties, 1)
             ELSE Begin(props)
        f == IF p.raised THEN [Begin(ports) EXCEPT !.raised = TRUE]
             ELSE IF "portfolios" \in DOMAIN data
             THEN ImportPortfolios(Begin(ports), uid, data.portfolios, 1)
             ELSE Begin(ports)
        r == IF f.raised THEN [Begin(reps) EXCEPT !.raised = TRUE]
             ELSE IF "reports" \in DOMAIN data
             THEN ImportReports(Begin(reps), uid, data.reports, 1)
             ELSE Begin(reps)
    IN  IF uid = NoUserId
        THEN /\ resp' = Unauthorized("migrate_all_data")
             /\ UNCHANGED <<users, now, props, ports, reps>>
        ELSE IF DOMAIN data = {}
        THEN /\ resp' = [op |-> "migrate_all_data", status |-> 400, user_id |-> uid]
             /\ UNCHANGED <<users, now, props, ports, reps>>
        ELSE IF r.raised
        THEN \* except Exception: db.session.rollback()
             /\ resp' = [op |-> "migrate_all_data", status |-> 500, user_id |-> uid]
             /\ UNCHANGED <<users, now, props, ports, reps>>
        ELSE \* db.session.commit()
             /\ props' = p.tbl /\ ports' = f.tbl /\ reps' = r.tbl
             /\ resp' = [op |-> "migrate_all_data", status |-> 200, user_id |-> uid,
                         results |-> [properties |-> Tally(p),
                                      portfolios |-> Tally(f),
                                      reports |-> Tally(r)]]
             /\ UNCHANGED <<users, now>>

(***************************************************************************)
(* Registration (src/routes/user.py).  The strings a client may send are   *)
(* few; their length, their stripped and lower-cased forms and the e-mail  *)
(* pattern are tabulated for them.                                         *)
(***************************************************************************)
StrLen(s) ==
    CASE s = "" -> 0 [] s \in {"al", "pw"} -> 2 [] s = "alice" -> 5 [] OTHER -> 7

Lower(s) == IF s = "A@X.COM" THEN "a@x.com" ELSE s

validate_email(email) == email \in {"a@x.com", "b@x.com", "c@x.com"}

validate_password(password) == StrLen(password) >= 6

\* POST /auth/register served while the clock goes from now to t2: User()
\* reads the clock in initialize_trial once for trial_start_date and once
\* more for trial_end_date; update_last_login, the column defaults and
\* the token read it after that
register_reading(data, t2) ==
    LET username == Strip(Get(data, "username", ""))
        email == Lower(Strip(Get(data, "email", "")))
        password == Get(data, "password", "")
        existing_user == {u \in DOMAIN users :
                            users[u].username = username \/ users[u].email = email}
        id == Len(users) + 1
        Refused(status) == /\ resp' = [op |-> "register", status |-> status,
                                       user_id |-> NoUserId]
                           /\ UNCHANGED users
    IN  /\ IF DOMAIN data = {} THEN Refused(400)
           ELSE IF username = "" \/ email = "" \/ password = "" THEN Refused(400)
           ELSE IF StrLen(username) < 3 THEN Refused(400)
           ELSE IF ~validate_email(email) THEN Refused(400)
           ELSE IF ~validate_password(password) THEN Refused(400)
           ELSE IF existing_user # {} THEN Refused(409)
           ELSE /\ users' = Append(users,
                        [Registered(username, email, password, now) EXCEPT
                            !.trial_end_date = t2 + Days(TrialDays),
                            !.last_login = t2, !.last_trial_check = t2])
                /\ resp' = [op |-> "register", status |-> 201, user_id |-> id,
                            token |-> generate_jwt_token(id, t2)]
        /\ now' = t2
        /\ UNCHANGED <<props, ports, reps>>

\* the request served within one reading of the clock
register(data) == register_reading(data, now)

\* User.find_by_username_or_email: the accounts the query matches; .first()
\* returns one of them, in an order the query does not fix
find_by_username_or_email(identifier) ==
    {u \in DOMAIN users : users[u].username = identifier \/ users[u].email = identifier}

login(data) ==
    LET identifier == Strip(Get(data, "username", ""))
        password == Get(data, "password", "")
        Refused(status) == /\ resp' = [op |-> "login", status |-> status,
                                       user_id |-> NoUserId]
                           /\ UNCHANGED users
    IN  /\ IF DOMAIN data = {} \/ identifier = "" \/ password = "" THEN Refused(400)
           ELSE IF find_by_username_or_email(identifier) = {} THEN Refused(401)
           ELSE \E user \in find_by_username_or_email(identifier) :
                   IF ~check_password_hash(users[user].password_hash, password)
                   THEN Refused(401)
                   ELSE /\ users' = [users EXCEPT ![user].last_login = now]
                        /\ resp' = [op |-> "login", status |-> 200, user_id |-> user,
                                    token |-> generate_jwt_token(user, now)]
        /\ UNCHANGED <<now, props, ports, reps>>

refresh_token(hdr) ==
    LET uid == get_user_from_token(hdr)
    IN  /\ IF uid = NoUserId
           THEN resp' = Unauthorized("refresh_token") /\ UNCHANGED users
           ELSE /\ users' = [users EXCEPT ![uid].last_login = now]
                /\ resp' = [op |-> "refresh_token", status |-> 200, user_id |-> uid,
                            token |-> generate_jwt_token(uid, now)]
        /\ UNCHANGED <<now, props, ports, reps>>

\* PUT /users/profile.  A row changed before a 4xx return is never committed:
\* the request's session is discarded with its transaction.
update_profile(hdr, data) ==
    LET uid == get_user_from_token(hdr)
        new_username == Strip(Get(data, "username", ""))
        new_email == Lower(Strip(Get(data, "email", "")))
        Taken(field, value) == \E u \in DOMAIN users : u # uid /\ users[u][field] = value
        renamed == IF "username" \in DOMAIN data
                   THEN [users[uid] EXCEPT !.username = new_username] ELSE users[uid]
        updated == IF "email" \in DOMAIN data
                   THEN [renamed EXCEPT !.email = new_email] ELSE renamed
        Refused(status) == /\ resp' = [op |-> "update_profile", status |-> status,
                                       user_id |-> uid]
                           /\ UNCHANGED users
    IN  /\ IF uid = NoUserId
           THEN resp' = Unauthorized("update_profile") /\ UNCHANGED users
           ELSE IF DOMAIN data = {} THEN Refused(400)
           ELSE IF "username" \in DOMAIN data /\ StrLen(new_username) < 3 THEN Refused(400)
           ELSE IF "username" \in DOMAIN data /\ Taken("username", new_username)
           THEN Refused(409)
           ELSE IF "email" \in DOMAIN data /\ ~validate_email(new_email) THEN Refused(400)
           ELSE IF "email" \in DOMAIN data /\ Taken("email", new_email) THEN Refused(409)
           ELSE /\ users' = [users EXCEPT ![uid] = updated]
                /\ resp' = [op |-> "update_profile", status |-> 200, user_id |-> uid]
        /\ UNCHANGED <<now, props, ports, reps>>

(***************************************************************************)
(* Subscription handlers (src/routes/subscription.py).  The handlers also  *)
(* set subscription_end_date and the Stripe ids, which the conditions of   *)
(* no handler read; they are left out of the row.                          *)
(***************************************************************************)
valid_plans == {"starter", "professional", "enterprise"}

plan_hierarchy(plan) ==
    CASE plan = "starter" -> 1 [] plan = "professional" -> 2
      [] plan = "enterprise" -> 3 [] OTHER -> 0

Answer(op, status, uid) == [op |-> op, status |-> status, user_id |-> uid]

create_subscription(hdr, data) ==
    LET uid == get_user_from_token(hdr)
        plan == Get(data, "plan", Null)
        payment_method_id == Get(data, "payment_method_id", Null)
    IN  /\ IF uid = NoUserId
           THEN resp' = Unauthorized("create_subscription") /\ UNCHANGED users
           ELSE IF plan = Null \/ payment_method_id = Null \/ plan \notin valid_plans
           THEN resp' = Answer("create_subscription", 400, uid) /\ UNCHANGED users
           ELSE /\ users' = [users EXCEPT ![uid].subscription_plan = plan,
                                          ![uid].subscription_status = "active",
                                          ![uid].subscription_start_date = now]
                /\ resp' = Answer("create_subscription", 200, uid)
        /\ UNCHANGED <<now, props, ports, reps>>

cancel_subscription(hdr) ==
    LET uid == get_user_from_token(hdr)
    IN  /\ IF uid = NoUserId
           THEN resp' = Unauthorized("cancel_subscription") /\ UNCHANGED users
           ELSE IF users[uid].subscription_status # "active"
           THEN resp' = Answer("cancel_subscription", 400, uid) /\ UNCHANGED users
           ELSE /\ users' = [users EXCEPT ![uid].subscription_status = "cancelled"]
                /\ resp' = Answer("cancel_subscription", 200, uid)
        /\ UNCHANGED <<now, props, ports, reps>>

\* faulty variant: an upgrade that also activates the subscription
UpgradeActivates(hdr, data) ==
    LET uid == get_user_from_token(hdr)
        new_plan == Get(data, "plan", Null)
    IN  /\ IF uid = NoUserId
           THEN resp' = Unauthorized("upgrade_subscription") /\ UNCHANGED users
           ELSE IF new_plan = Null \/ new_plan \notin valid_plans
           THEN resp' = Answer("upgrade_subscription", 400, uid) /\ UNCHANGED users
           ELSE IF plan_hierarchy(new_plan) <= plan_hierarchy(users[uid].subscription_plan)
           THEN resp' = Answer("upgrade_subscription", 400, uid) /\ UNCHANGED users
           ELSE /\ users' = [users EXCEPT ![uid].subscription_plan = new_plan,
                                          ![uid].subscription_status = "active"]
                /\ resp' = Answer("upgrade_subscription", 500, uid)
        /\ UNCHANGED <<now, props, ports, reps>>

upgrade_subscription(hdr, data) ==
    LET uid == get_user_from_token(hdr)
        new_plan == Get(data, "plan", Null)
    IN  /\ IF uid = NoUserId
           THEN resp' = Unauthorized("upgrade_subscription") /\ UNCHANGED users
           ELSE IF new_plan = Null \/ new_plan \notin valid_plans
           THEN resp' = Answer("upgrade_subscription", 400, uid) /\ UNCHANGED users
           ELSE IF plan_hierarchy(new_plan) <= plan_hierarchy(users[uid].subscription_plan)
           THEN resp' = Answer("upgrade_subscription", 400, uid) /\ UNCHANGED users
           ELSE \* the plan is committed; the response then reads
                \* user.subscription_end_date, which is no column of User and is
                \* not set in this request: AttributeError, caught, 500
                /\ users' = [users EXCEPT ![uid].subscription_plan = new_plan]
                /\ resp' = Answer("upgrade_subscription", 500, uid)
        /\ UNCHANGED <<now, props, ports, reps>>

verify_payment(hdr, data) ==
    LET uid == get_user_from_token(hdr)
    IN  /\ IF uid = NoUserId
           THEN resp' = Unauthorized("verify_payment") /\ UNCHANGED users
           ELSE IF Get(data, "session_id", Null) = Null
           THEN resp' = Answer("verify_payment", 400, uid) /\ UNCHANGED users
           ELSE /\ users' = [users EXCEPT ![uid].subscription_plan = "professional",
                                          ![uid].subscription_status = "active",
                                          ![uid].subscription_start_date = now]
                /\ resp' = Answer("verify_payment", 200, uid)
        /\ UNCHANGED <<now, props, ports, reps>>

\* GET /subscription/status: the response is built from the account's
\* columns and its computed trial status, and reads user.subscription_end_date,
\* which is no column of User and is not assigned in this request:
\* AttributeError, caught by the handler's except, 500.  Nothing is written.
get_subscription_status(hdr) ==
    LET uid == get_user_from_token(hdr)
    IN  /\ resp' = IF uid = NoUserId THEN Unauthorized("get_subscription_status")
                   ELSE Answer("get_subscription_status", 500, uid)
        /\ UNCHANGED <<users, now, props, ports, reps>>

(***************************************************************************)
(* The account's methods invoked on a stored row at the current time, and  *)
(* the row committed.                                                      *)
(***************************************************************************)
CalculateTrialStatus(u) ==
    /\ resp' = [op |-> "calculate_trial_status", status |-> 200, user_id |-> u,
                trial_status |-> calculate_trial_status(users[u], now)]
    /\ UNCHANGED <<users, now, props, ports, reps>>

UpdateTrialStatus(u) ==
    /\ users' = [users EXCEPT ![u] = update_trial_status(@, now)]
    /\ resp' = [op |-> "update_trial_status", status |-> 200, user_id |-> u,
                trial_status |-> calculate_trial_status(users[u], now)]
    /\ UNCHANGED <<now, props, ports, reps>>

StartSubscription(u, plan_id) ==
    /\ users' = [users EXCEPT ![u] = start_subscription(@, plan_id, now)]
    /\ resp' = Answer("start_subscription", 200, u)
    /\ UNCHANGED <<now, props, ports, reps>>

CancelSubscription(u) ==
    /\ users' = [users EXCEPT ![u] = User_cancel_subscription(@)]
    /\ resp' = Answer("cancel_subscription", 200, u)
    /\ UNCHANGED <<now, props, ports, reps>>

(***************************************************************************)
(* Specifications                                                          *)
(***************************************************************************)
Slots == {1, 2}                 \* requests the server may be serving at once
Idle == [pc |-> "idle"]

NoRequest == [op |-> "none"]
NoResponse == [op |-> "none", status |-> 0, user_id |-> NoUserId]

UserNames == [u \in Users |-> IF u = 1 THEN "alice" ELSE "bob"]
UserEmails == [u \in Users |-> IF u = 1 THEN "a@x.com" ELSE "b@x.com"]

\* the accounts of Users registered at time 0, no data stored yet
InitRegistered ==
    /\ users = [u \in Users |-> Registered(UserNames[u], UserEmails[u], "secret1", 0)]
    /\ now = 0
    /\ props = {} /\ ports = {} /\ reps = {}
    /\ inflight = [s \in Slots |-> Idle]
    /\ req = NoRequest
    /\ resp = NoResponse

\* request headers: none, or the bearer token an account got at time 0
Headers == {<<>>} \cup {Bearer(generate_jwt_token(u, 0)) : u \in Users}

\* what the client notes of a request served in one piece
Log(request) == req' = request /\ UNCHANGED inflight

UserHeaders == {Bearer(generate_jwt_token(u, 0)) : u \in Users}

\* SpecProp: property imports, each request logged in full
PropertyPayloads ==
    Optional(Optional({<<>>}, "id", Ids), "address", {"a"})

PropertyBatches == SeqsUpTo(PropertyPayloads, MaxBatch)

NextProp ==
    \/ \E hdr \in UserHeaders, properties \in PropertyBatches :
          LET data == [properties |-> properties]
          IN  /\ migrate_properties(hdr, data)
              /\ Log([op |-> "migrate_properties", hdr |-> hdr, data |-> data])
    \/ \E hdr \in Headers :
          /\ migrate_properties(hdr, <<>>)
          /\ Log([op |-> "migrate_properties", hdr |-> hdr, data |-> <<>>])
    \/ \E hdr \in Headers, id \in Ids :
          /\ delete_property(hdr, id)
          /\ Log([op |-> "delete_property", hdr |-> hdr, id |-> id])

SpecProp == InitRegistered /\ [][NextProp]_vars

\* SpecCrud: reads, updates and deletes by id, each request logged; rows come
\* in through single imports
CrudIds == {"e1"}

FreshUuid(pool, used) == IF pool \subseteq used THEN pool ELSE pool \ used

NextCrud ==
    \/ \E hdr \in Headers, id \in CrudIds :
          /\ migrate_properties(hdr, [properties |-> <<[id |-> id, address |-> "a"]>>])
          /\ Log([op |-> "migrate_properties", hdr |-> hdr, id |-> id])
    \/ \E hdr \in Headers, id \in CrudIds :
          /\ import_portfolio(hdr, [id |-> id, name |-> "a"])
          /\ Log([op |-> "import_portfolio", hdr |-> hdr, id |-> id])
    \/ \E hdr \in Headers, id \in CrudIds :
          /\ migrate_reports(hdr, [reports |-> <<[id |-> id, title |-> "a"]>>])
          /\ Log([op |-> "migrate_reports", hdr |-> hdr, id |-> id])
    \/ \E hdr \in Headers, id \in CrudIds :
          /\ get_property(hdr, id)
          /\ Log([op |-> "get_property", hdr |-> hdr, id |-> id])
    \/ \E hdr \in Headers, id \in CrudIds, data \in {<<>>, [address |-> " b "]} :
          /\ update_property(hdr, id, data)
          /\ Log([op |-> "update_property", hdr |-> hdr, id |-> id])
    \/ \E hdr \in Headers, id \in CrudIds :
          /\ delete_property(hdr, id)
          /\ Log([op |-> "delete_property", hdr |-> hdr, id |-> id])
    \/ \E hdr \in Headers, id \in CrudIds :
          /\ get_portfolio(hdr, id)
          /\ Log([op |-> "get_portfolio", hdr |-> hdr, id |-> id])
    \/ \E hdr \in Headers, id \in CrudIds,
          data \in {<<>>, [name |-> " b "], [is_public |-> TRUE]},
          uuid \in FreshUuid(ShareIds, {r.share_id : r \in ports}) :
          /\ update_portfolio(hdr, id, data, uuid)
          /\ Log([op |-> "update_portfolio", hdr |-> hdr, id |-> id])
    \/ \E hdr \in Headers, id \in CrudIds :
          /\ delete_portfolio(hdr, id)
          /\ Log([op |-> "delete_portfolio", hdr |-> hdr, id |-> id])
    \/ \E hdr \in Headers, id \in CrudIds :
          /\ get_report(hdr, id)
          /\ Log([op |-> "get_report", hdr |-> hdr, id |-> id])
    \/ \E hdr \in Headers, id \in CrudIds :
          /\ delete_report(hdr, id)
          /\ Log([op |-> "delete_report", hdr |-> hdr, id |-> id])

SpecCrud == InitRegistered /\ [][NextCrud]_vars

\* SpecOwner: every import endpoint, payloads carrying any account's user_id
\* or none, each request logged
OwnerIds == {"e1"}

OwnedPayloads(field) ==
    Optional({[x \in {"id", field} |-> IF x = "id" THEN id ELSE "a"] : id \in OwnerIds},
             "user_id", Users)

OneOrNone(S) == SeqsUpTo(S, 1)

NextOwner ==
    \/ \E hdr \in Headers, properties \in OneOrNone(OwnedPayloads("address")) :
          LET data == [properties |-> properties]
          IN  /\ migrate_properties(hdr, data)
              /\ Log([op |-> "migrate_properties", hdr |-> hdr, data |-> data])
    \/ \E hdr \in Headers, portfolios \in OneOrNone(OwnedPayloads("name")) :
          LET data == [portfolios |-> portfolios]
          IN  /\ migrate_portfolios(hdr, data)
              /\ Log([op |-> "migrate_portfolios", hdr |-> hdr, data |-> data])
    \/ \E hdr \in Headers, reports \in OneOrNone(OwnedPayloads("title")) :
          LET data == [reports |-> reports]
          IN  /\ migrate_reports(hdr, data)
              /\ Log([op |-> "migrate_reports", hdr |-> hdr, data |-> data])
    \/ \E hdr \in Headers, data \in OwnedPayloads("name") :
          /\ import_portfolio(hdr, data)
          /\ Log([op |-> "import_portfolio", hdr |-> hdr, data |-> data])
    \/ \E hdr \in Headers,
          properties \in OneOrNone(OwnedPayloads("address")),
          portfolios \in OneOrNone(OwnedPayloads("name")),
          reports \in OneOrNone(OwnedPayloads("title")) :
          LET data == [properties |-> properties, portfolios |-> portfolios,
                       reports |-> reports]
          IN  /\ migrate_all_data(hdr, data)
              /\ Log([op |-> "migrate_all_data", hdr |-> hdr, data |-> data])

SpecOwner == InitRegistered /\ [][NextOwner]_vars

\* SpecAtomic: every import endpoint, payloads that can and payloads that
\* cannot be stored (a NULL required column, an id another account holds),
\* each request logged
AtomicIds == {"e1"}

Storable(ids, field) ==
    {[x \in {"id", field} |-> IF x = "id" THEN id ELSE v] : id \in ids, v \in {"a", Null}}

\* the payloads of the longer property lists: two that can be stored and one
\* that cannot
AtomicBatchPayloads ==
    {p \in Storable(Ids, "address") : p.address = Null => p.id = "e2"}

NextAtomic ==
    \/ \E hdr \in UserHeaders, properties \in SeqsUpTo(AtomicBatchPayloads, MaxBatch) :
          LET data == [properties |-> properties]
          IN  /\ migrate_properties(hdr, data)
              /\ Log([op |-> "migrate_properties", hdr |-> hdr, data |-> data])
    \/ \E hdr \in UserHeaders, portfolios \in OneOrNone(Storable(AtomicIds, "name")) :
          LET data == [portfolios |-> portfolios]
          IN  /\ migrate_portfolios(hdr, data)
              /\ Log([op |-> "migrate_portfolios", hdr |-> hdr, data |-> data])
    \/ \E hdr \in UserHeaders, reports \in OneOrNone(Storable(AtomicIds, "title")) :
          LET data == [reports |-> reports]
          IN  /\ migrate_reports(hdr, data)
              /\ Log([op |-> "migrate_reports", hdr |-> hdr, data |-> data])
    \/ \E hdr \in UserHeaders, data \in Storable(AtomicIds, "name") :
          /\ import_portfolio(hdr, data)
          /\ Log([op |-> "import_portfolio", hdr |-> hdr, data |-> data])
    \/ \E hdr \in UserHeaders,
          properties \in OneOrNone(Storable(AtomicIds, "address")),
          portfolios \in OneOrNone(Storable(AtomicIds, "name")),
          reports \in OneOrNone(Storable(AtomicIds, "title")) :
          LET data == [properties |-> properties, portfolios |-> portfolios,
                       reports |-> reports]
          IN  /\ migrate_all_data(hdr, data)
              /\ Log([op |-> "migrate_all_data", hdr |-> hdr, data |-> data])

SpecAtomic == InitRegistered /\ [][NextAtomic]_vars

(***************************************************************************)
(* migrate_properties served concurrently (src/routes/property.py).  Each   *)
(* request runs in its own session and transaction; a step is one          *)
(* iteration of the for loop.  A session sees the committed rows and its   *)
(* own pending ones; an INSERT of a primary key that another transaction   *)
(* has committed raises IntegrityError at the next flush or at commit.     *)
(***************************************************************************)
PendingConflict(pending) == \E row \in pending, r \in props : r.id = row.id

begin_migrate_properties(s, hdr, data) ==
    LET uid == get_user_from_token(hdr)
    IN  /\ inflight[s].pc = "idle"
        /\ IF uid = NoUserId
           THEN resp' = Unauthorized("migrate_properties") /\ UNCHANGED inflight
           ELSE IF "properties" \notin DOMAIN data
           THEN /\ resp' = [op |-> "migrate_properties", status |-> 400, user_id |-> uid]
                /\ UNCHANGED inflight
           ELSE /\ inflight' = [inflight EXCEPT ![s] =
                       [pc |-> "loop", uid |-> uid, properties |-> data.properties,
                        i |-> 1, pending |-> {},
                        imported |-> 0, skipped |-> 0, raised |-> FALSE]]
                /\ UNCHANGED resp
        /\ UNCHANGED <<users, now, props, ports, reps, req>>

step_migrate_properties(s) ==
    LET t == inflight[s]
        \* autoflush, then the query sees committed and pending rows
        seen == [tbl |-> props \cup t.pending, imported |-> t.imported,
                 skipped |-> t.skipped, raised |-> PendingConflict(t.pending)]
        after == ImportProperty(seen, t.uid, t.properties[t.i])
    IN  /\ t.pc = "loop"
        /\ ~t.raised /\ t.i <= Len(t.properties)
        /\ inflight' = [inflight EXCEPT ![s].i = @ + 1,
                                        ![s].pending = @ \cup (after.tbl \ seen.tbl),
                                        ![s].imported = after.imported,
                                        ![s].skipped = after.skipped,
                                        ![s].raised = after.raised]
        /\ UNCHANGED <<users, now, props, ports, reps, req, resp>>

finish_migrate_properties(s) ==
    LET t == inflight[s]
    IN  /\ t.pc = "loop"
        /\ t.raised \/ t.i > Len(t.properties)
        /\ IF t.raised \/ PendingConflict(t.pending)
           THEN \* except Exception: db.session.rollback()
                /\ resp' = [op |-> "migrate_properties", status |-> 500, user_id |-> t.uid]
                /\ UNCHANGED props
           ELSE \* db.session.commit()
                /\ props' = props \cup t.pending
                /\ resp' = [op |-> "migrate_properties", status |-> 200, user_id |-> t.uid,
                            imported_count |-> t.imported,
                            skipped_count |-> t.skipped]
        /\ inflight' = [inflight EXCEPT ![s] = Idle]
        /\ UNCHANGED <<users, now, ports, reps, req>>

\* SpecRace: two requests at a time, each a list of distinct new properties
RaceBatches ==
    {l \in SeqsUpTo({[id |-> id, address |-> "a"] : id \in Ids}, MaxBatch) :
        Len(l) >= 1 /\ \A i, j \in 1..Len(l) : i < j => l[i] # l[j]}

NextRace ==
    \/ \E s \in Slots, hdr \in UserHeaders, properties \in RaceBatches :
          begin_migrate_properties(s, hdr, [properties |-> properties])
    \/ \E s \in Slots, hdr \in Headers : begin_migrate_properties(s, hdr, <<>>)
    \/ \E s \in Slots : step_migrate_properties(s)
    \/ \E s \in Slots : finish_migrate_properties(s)

SpecRace == InitRegistered /\ [][NextRace]_vars

(***************************************************************************)
(* register and update_profile served two at a time.  A request arrives,   *)
(* runs its validations and existence queries against the committed rows,  *)
(* and commits later; the unique constraints on username and email raise   *)
(* IntegrityError at the commit if another transaction has committed the   *)
(* value meanwhile, which the handler's except clause answers with 500.    *)
(***************************************************************************)
begin_register(s, data) ==
    /\ inflight[s].pc = "idle"
    /\ inflight' = [inflight EXCEPT ![s] = [pc |-> "register", data |-> data]]
    /\ UNCHANGED <<users, now, props, ports, reps, req, resp>>

check_register(s) ==
    LET data == inflight[s].data
        username == Strip(Get(data, "username", ""))
        email == Lower(Strip(Get(data, "email", "")))
        password == Get(data, "password", "")
        existing_user == {u \in DOMAIN users :
                            users[u].username = username \/ users[u].email = email}
        Refused(status) == /\ resp' = [op |-> "register", status |-> status,
                                       user_id |-> NoUserId]
                           /\ inflight' = [inflight EXCEPT ![s] = Idle]
    IN  /\ inflight[s].pc = "register"
        /\ IF DOMAIN data = {} THEN Refused(400)
           ELSE IF username = "" \/ email = "" \/ password = "" THEN Refused(400)
           ELSE IF StrLen(username) < 3 THEN Refused(400)
           ELSE IF ~validate_email(email) THEN Refused(400)
           ELSE IF ~validate_password(password) THEN Refused(400)
           ELSE IF existing_user # {} THEN Refused(409)
           ELSE /\ inflight' = [inflight EXCEPT ![s].pc = "register_commit"]
                /\ UNCHANGED resp
        /\ UNCHANGED <<users, now, props, ports, reps, req>>

commit_register(s) ==
    LET data == inflight[s].data
        username == Strip(data.username)
        email == Lower(Strip(data.email))
        id == Len(users) + 1
    IN  /\ inflight[s].pc = "register_commit"
        /\ IF \E u \in DOMAIN users : users[u].username = username \/ users[u].email = email
           THEN \* IntegrityError; except Exception: db.session.rollback()
                /\ resp' = [op |-> "register", status |-> 500, user_id |-> NoUserId]
                /\ UNCHANGED users
           ELSE /\ users' = Append(users, Registered(username, email, data.password, now))
                /\ resp' = [op |-> "register", status |-> 201, user_id |-> id,
                            token |-> generate_jwt_token(id, now)]
        /\ inflight' = [inflight EXCEPT ![s] = Idle]
        /\ UNCHANGED <<now, props, ports, reps, req>>

begin_update_profile(s, hdr, data) ==
    /\ inflight[s].pc = "idle"
    /\ inflight' = [inflight EXCEPT ![s] = [pc |-> "update_profile", hdr |-> hdr,
                                            data |-> data]]
    /\ UNCHANGED <<users, now, props, ports, reps, req, resp>>

check_update_profile(s) ==
    LET data == inflight[s].data
        uid == get_user_from_token(inflight[s].hdr)
        new_username == Strip(Get(data, "username", ""))
        new_email == Lower(Strip(Get(data, "email", "")))
        Taken(field, value) == \E u \in DOMAIN users : u # uid /\ users[u][field] = value
        Refused(status) == /\ resp' = [op |-> "update_profile", status |-> status,
                                       user_id |-> uid]
                           /\ inflight' = [inflight EXCEPT ![s] = Idle]
    IN  /\ inflight[s].pc = "update_profile"
        /\ IF uid = NoUserId
           THEN /\ resp' = Unauthorized("update_profile")
                /\ inflight' = [inflight EXCEPT ![s] = Idle]
           ELSE IF DOMAIN data = {} THEN Refused(400)
           ELSE IF "username" \in DOMAIN data /\ StrLen(new_username) < 3 THEN Refused(400)
           ELSE IF "username" \in DOMAIN data /\ Taken("username", new_username)
           THEN Refused(409)
           ELSE IF "email" \in DOMAIN data /\ ~validate_email(new_email) THEN Refused(400)
           ELSE IF "email" \in DOMAIN data /\ Taken("email", new_email) THEN Refused(409)
           ELSE /\ inflight' = [inflight EXCEPT ![s] =
                       [pc |-> "update_profile_commit", uid |-> uid, data |-> data]]
                /\ UNCHANGED resp
        /\ UNCHANGED <<users, now, props, ports, reps, req>>

commit_update_profile(s) ==
    LET data == inflight[s].data
        uid == inflight[s].uid
        renamed == IF "username" \in DOMAIN data
                   THEN [users[uid] EXCEPT !.username = Strip(data.username)]
                   ELSE users[uid]
        updated == IF "email" \in DOMAIN data
                   THEN [renamed EXCEPT !.email = Lower(Strip(data.email))] ELSE renamed
    IN  /\ inflight[s].pc = "update_profile_commit"
        /\ IF \E u \in DOMAIN users :
                 /\ u # uid
                 /\ users[u].username = updated.username \/ users[u].email = updated.email
           THEN \* IntegrityError; except Exception: db.session.rollback()
                /\ resp' = [op |-> "update_profile", status |-> 500, user_id |-> uid]
                /\ UNCHANGED users
           ELSE /\ users' = [users EXCEPT ![uid] = updated]
                /\ resp' = [op |-> "update_profile", status |-> 200, user_id |-> uid]
        /\ inflight' = [inflight EXCEPT ![s] = Idle]
        /\ UNCHANGED <<now, props, ports, reps, req>>

\* SpecAccounts: registrations and profile updates, two requests at a time
RegisterBodies ==
    {[username |-> "carol", email |-> "c@x.com", password |-> "secret1"],
     [username |-> "alice", email |-> "c@x.com", password |-> "secret1"],
     [username |-> "dave", email |-> "A@X.COM", password |-> "secret1"],
     [username |-> "carol", email |-> "c@x.com", password |-> "pw"],
     [username |-> "carol"]}

ProfileBodies ==
    {[username |-> "carol"], [username |-> "bob"], [email |-> "c@x.com"],
     [email |-> "A@X.COM"], [username |-> "al"], <<>>}

NextAccounts ==
    \/ \E s \in Slots, data \in RegisterBodies : begin_register(s, data)
    \/ \E s \in Slots : check_register(s)
    \/ \E s \in Slots : commit_register(s)
    \/ \E s \in Slots, hdr \in Headers, data \in ProfileBodies :
          begin_update_profile(s, hdr, data)
    \/ \E s \in Slots : check_update_profile(s)
    \/ \E s \in Slots : commit_update_profile(s)

SpecAccounts == InitRegistered /\ [][NextAccounts]_vars

\* SpecTrial: one account from its registration on, under the operations on
\* its trial and subscription, while time passes a day at a time
MaxTime == Days(MaxDays)

\* n ticks pass, the clock staying within the horizon
Pass(n, horizon) ==
    /\ now + n <= horizon
    /\ now' = now + n
    /\ UNCHANGED <<users, props, ports, reps, inflight, req, resp>>

InitEmpty ==
    /\ users = <<>>
    /\ now = 0
    /\ props = {} /\ ports = {} /\ reps = {}
    /\ inflight = [s \in Slots |-> Idle]
    /\ req = NoRequest
    /\ resp = NoResponse

\* the tokens issued at registration, and no token
IssuedHeaders ==
    {<<>>} \cup {Bearer(generate_jwt_token(u, users[u].trial_start_date)) : u \in DOMAIN users}

Unlogged == UNCHANGED <<req, inflight>>

NextTrial ==
    \/ users # <<>> /\ Pass(Days(1), MaxTime)    \* the clock starts at the registration
    \/ /\ register([username |-> "alice", email |-> "a@x.com", password |-> "secret1"])
       /\ Unlogged
    \/ \E u \in DOMAIN users : CalculateTrialStatus(u) /\ Unlogged
    \/ \E u \in DOMAIN users : UpdateTrialStatus(u) /\ Unlogged
    \/ \E u \in DOMAIN users : StartSubscription(u, "starter") /\ Unlogged
    \/ \E u \in DOMAIN users : CancelSubscription(u) /\ Unlogged
    \/ \E hdr \in IssuedHeaders,
          data \in Optional(Optional({<<>>}, "plan", {"starter", "gold"}),
                            "payment_method_id", {"pm_1"}) :
          create_subscription(hdr, data) /\ Unlogged
    \/ \E hdr \in IssuedHeaders : cancel_subscription(hdr) /\ Unlogged
    \/ \E hdr \in IssuedHeaders,
          data \in Optional({<<>>}, "plan", {"starter", "professional", "gold"}) :
          upgrade_subscription(hdr, data) /\ Unlogged

SpecTrial == InitEmpty /\ [][NextTrial]_vars

\* SpecCalc: the status computation applied to an account row and a time
\* drawn from the values the columns and the clock can hold
AccountRows ==
    {[Registered("alice", "a@x.com", "secret1", 0) EXCEPT
          !.trial_active = a, !.subscription_status = st,
          !.subscription_plan = pl, !.payment_required = pr] :
       a \in BOOLEAN, pr \in BOOLEAN,
       st \in {"trial_active", "trial_expired", "active", "cancelled"},
       pl \in {"trial", "free", "starter", "professional"}}

InitCalc ==
    /\ users \in {<<row>> : row \in AccountRows}
    /\ now \in 0..MaxTime
    /\ props = {} /\ ports = {} /\ reps = {}
    /\ inflight = [s \in Slots |-> Idle]
    /\ req = NoRequest
    /\ resp = NoResponse

NextCalc == \E u \in DOMAIN users : CalculateTrialStatus(u) /\ Unlogged

SpecCalc == InitCalc /\ [][NextCalc]_vars

\* SpecToken: tokens presented for verification while time passes beyond
\* their expiry; a token is genuine or forged, names a stored account, an
\* account that does not exist, or none
TokenMaxDays == 31

PresentedTokens ==
    LET signed == {[key |-> k, iat |-> iat, exp |-> iat + Days(TokenDays)] :
                      k \in {SECRET_KEY, "another-key"}, iat \in {0, 1} \cap 0..now}
    IN  Optional(signed, "user_id", Users \cup {3})

VerifyJwtToken(token) ==
    LET uid == verify_jwt_token(token)
    IN  /\ resp' = Answer("verify_jwt_token", IF uid = NoUserId THEN 401 ELSE 200, uid)
        /\ UNCHANGED <<users, now, props, ports, reps>>

NextToken ==
    \/ Pass(1, Days(TokenMaxDays))
    \/ \E token \in PresentedTokens :
          /\ VerifyJwtToken(token)
          /\ Log([op |-> "verify_jwt_token", token |-> token])

SpecToken == InitRegistered /\ [][NextToken]_vars

\* SpecAuth: every mutating endpoint called with credentials that must be
\* refused, over tables that hold records of both accounts
Basic(token) == [Authorization |-> [scheme |-> "Basic", token |-> token]]

RefusedHeaders ==
    {<<>>, Basic(generate_jwt_token(1, 0)),
     Bearer([generate_jwt_token(1, 0) EXCEPT !.key = "another-key"]),
     Bearer([generate_jwt_token(1, 0) EXCEPT !.user_id = 3]),
     Bearer([key |-> SECRET_KEY, iat |-> 0, exp |-> Days(TokenDays)])}
    \cup (IF now > Days(TokenDays) THEN UserHeaders ELSE {})

Stored(field) == [x \in {"id", field} |-> IF x = "id" THEN "e1" ELSE "a"]

Populate ==
    \E hdr \in UserHeaders, kinds \in SUBSET {"properties", "portfolios", "reports"} :
       LET data == [k \in {"properties", "portfolios", "reports"} |->
                       IF k \notin kinds THEN <<>>
                       ELSE IF k = "properties" THEN <<Stored("address")>>
                       ELSE IF k = "portfolios" THEN <<Stored("name")>>
                       ELSE <<Stored("title")>>]
       IN  /\ now = 0
           /\ migrate_all_data(hdr, data)
           /\ Log([op |-> "migrate_all_data", hdr |-> hdr])

Mutating(op, hdr) ==
    CASE op = "create_subscription" ->
            create_subscription(hdr, [plan |-> "starter", payment_method_id |-> "pm_1"])
      [] op = "cancel_subscription" -> cancel_subscription(hdr)
      [] op = "upgrade_subscription" -> upgrade_subscription(hdr, [plan |-> "starter"])
      [] op = "verify_payment" -> verify_payment(hdr, [session_id |-> "cs_1"])
      [] op = "update_profile" -> update_profile(hdr, [username |-> "carol"])
      [] op = "refresh_token" -> refresh_token(hdr)
      [] op = "create_property" -> create_property(hdr, [address |-> "a"], "u1")
      [] op = "update_property" -> update_property(hdr, "e1", [address |-> "b"])
      [] op = "delete_property" -> delete_property(hdr, "e1")
      [] op = "migrate_properties" ->
            migrate_properties(hdr, [properties |-> <<Stored("address")>>])
      [] op = "create_portfolio" -> create_portfolio(hdr, [name |-> "a"], "u1", "s1")
      [] op = "update_portfolio" -> update_portfolio(hdr, "e1", [name |-> "b"], "s1")
      [] op = "delete_portfolio" -> delete_portfolio(hdr, "e1")
      [] op = "import_portfolio" -> import_portfolio(hdr, Stored("name"))
      [] op = "migrate_portfolios" ->
            migrate_portfolios(hdr, [portfolios |-> <<Stored("name")>>])
      [] op = "create_report" -> create_report(hdr, [title |-> "a"], "u1")
      [] op = "delete_report" -> delete_report(hdr, "e1")
      [] op = "migrate_reports" -> migrate_reports(hdr, [reports |-> <<Stored("title")>>])
      [] op = "migrate_all_data" ->
            migrate_all_data(hdr, [properties |-> <<Stored("address")>>])

MutatingOps ==
    {"create_subscription", "cancel_subscription", "upgrade_subscription",
     "verify_payment", "update_profile", "refresh_token",
     "create_property", "update_property", "delete_property", "migrate_properties",
     "create_portfolio", "update_portfolio", "delete_portfolio", "import_portfolio",
     "migrate_portfolios", "create_report", "delete_report", "migrate_reports",
     "migrate_all_data"}

NextAuth ==
    \/ Pass(Days(TokenMaxDays), Days(TokenMaxDays))
    \/ Populate
    \/ \E op \in MutatingOps, hdr \in RefusedHeaders :
          Mutating(op, hdr) /\ Log([op |-> op, hdr |-> hdr])

SpecAuth == InitRegistered /\ [][NextAuth]_vars

\* SpecPlan: the subscription routes called by both accounts, each request
\* logged with its body
PlanBodies == Optional({<<>>}, "plan", valid_plans \cup {"gold"})

NextPlan ==
    \/ \E hdr \in Headers, data \in Optional(PlanBodies, "payment_method_id", {"pm_1"}) :
          /\ create_subscription(hdr, data)
          /\ Log([op |-> "create_subscription", hdr |-> hdr, data |-> data])
    \/ \E hdr \in Headers :
          cancel_subscription(hdr) /\ Log([op |-> "cancel_subscription", hdr |-> hdr])
    \/ \E hdr \in Headers, data \in PlanBodies :
          /\ upgrade_subscription(hdr, data)
          /\ Log([op |-> "upgrade_subscription", hdr |-> hdr, data |-> data])
    \/ \E hdr \in Headers, data \in Optional({<<>>}, "session_id", {"cs_1"}) :
          /\ verify_payment(hdr, data)
          /\ Log([op |-> "verify_payment", hdr |-> hdr, data |-> data])
    \/ \E u \in DOMAIN users, plan \in valid_plans :
          /\ StartSubscription(u, plan)
          /\ Log([op |-> "start_subscription", data |-> [plan |-> plan]])
    \/ \E u \in DOMAIN users :
          CancelSubscription(u) /\ Log([op |-> "User_cancel_subscription"])

SpecPlan == InitRegistered /\ [][NextPlan]_vars

\* SpecStatus: account 1 subscribes, cancels, has its trial status updated
\* and asks for its subscription status, within its trial and after it
StatusStep == Days(4)

StatusHeader == Bearer(generate_jwt_token(1, 0))

NextStatus ==
    \/ Pass(StatusStep, MaxTime)
    \/ \E data \in {[plan |-> "starter", payment_method_id |-> "pm_1"]} :
          /\ create_subscription(StatusHeader, data)
          /\ Log([op |-> "create_subscription", hdr |-> StatusHeader, data |-> data])
    \/ /\ cancel_subscription(StatusHeader)
       /\ Log([op |-> "cancel_subscription", hdr |-> StatusHeader])
    \/ UpdateTrialStatus(1) /\ Log([op |-> "update_trial_status"])
    \/ \E hdr \in {<<>>, StatusHeader} :
          /\ get_subscription_status(hdr)
          /\ Log([op |-> "get_subscription_status", hdr |-> hdr])

SpecStatus == InitRegistered /\ [][NextStatus]_vars

\* SpecWindow: one account from its registration on, the clock read once
\* or twice a tick apart while it registers (a repeated registration is
\* refused within one reading), under every operation on the account and an
\* import, within its trial and after it
WindowStep == Days(TrialDays + 1)

\* the tokens issued at registration
WindowHeaders ==
    {Bearer(generate_jwt_token(u, users[u].trial_end_date - Days(TrialDays))) :
        u \in DOMAIN users}

NextWindow ==
    \/ users # <<>> /\ Pass(WindowStep, MaxTime)
    \/ \E data \in {[username |-> "alice", email |-> "a@x.com", password |-> "secret1"]},
          t2 \in IF users = <<>> THEN {now, now + 1} ELSE {now} :
          register_reading(data, t2) /\ Log([op |-> "register", data |-> data])
    \/ \E data \in {[username |-> "alice", password |-> "secret1"]} :
          login(data) /\ Log([op |-> "login", data |-> data])
    \/ \E hdr \in WindowHeaders, data \in {[email |-> "c@x.com"]} :
          update_profile(hdr, data) /\ Log([op |-> "update_profile", hdr |-> hdr, data |-> data])
    \/ \E u \in DOMAIN users : UpdateTrialStatus(u) /\ Log([op |-> "update_trial_status"])
    \/ \E u \in DOMAIN users :
          StartSubscription(u, "starter") /\ Log([op |-> "start_subscription"])
    \/ \E u \in DOMAIN users :
          CancelSubscription(u) /\ Log([op |-> "User_cancel_subscription"])
    \/ \E hdr \in WindowHeaders, data \in {[plan |-> "starter", payment_method_id |-> "pm_1"]} :
          /\ create_subscription(hdr, data)
          /\ Log([op |-> "create_subscription", hdr |-> hdr, data |-> data])
    \/ \E hdr \in WindowHeaders :
          cancel_subscription(hdr) /\ Log([op |-> "cancel_subscription", hdr |-> hdr])
    \/ \E hdr \in WindowHeaders, data \in {[plan |-> "professional"]} :
          /\ upgrade_subscription(hdr, data)
          /\ Log([op |-> "upgrade_subscription", hdr |-> hdr, data |-> data])
    \/ \E hdr \in WindowHeaders,
          data \in {[properties |-> <<[id |-> "e1", address |-> "a"]>>]} :
          /\ migrate_properties(hdr, data)
          /\ Log([op |-> "migrate_properties", hdr |-> hdr, data |-> data])

SpecWindow == InitEmpty /\ [][NextWindow]_vars

\* SpecStats: portfolios of account 1 created, updated, imported, migrated
\* and deleted, with deal packages that have and lack a totalValue, a
\* properties list, and a roi (absent, null, zero, positive); one body
\* carries a total_value of its own
Packages ==
    {[totalValue |-> 100, properties |-> <<[roi |-> 5], [roi |-> 15]>>],
     [properties |-> <<[roi |-> NullRoi], [address |-> "a"], [roi |-> 0]>>],
     [totalValue |-> 50],
     [totalValue |-> 7, properties |-> <<[roi |-> 2]>>]}

PackageLists == SeqsUpTo(Packages, MaxPackages)

Example == <<[totalValue |-> 100, properties |-> <<[roi |-> 5], [roi |-> 15]>>]>>

StatsBodies ==
    Optional({[id |-> "e1", name |-> "a"]}, "deal_packages", PackageLists)
    \cup {[id |-> "e1", name |-> "a", deal_packages |-> Example, total_value |-> 999]}

StatsHeader == Bearer(generate_jwt_token(1, 0))

NextStats ==
    \/ \E data \in Optional({[name |-> "a"]}, "deal_packages", {Example}) :
          create_portfolio(StatsHeader, data, "u1", "s1") /\ Unlogged
    \/ \E data \in Optional({<<>>}, "deal_packages", PackageLists) \cup {[name |-> "b"]} :
          update_portfolio(StatsHeader, "e1", data, "s1") /\ Unlogged
    \/ \E id \in {"e1", "u1"} : delete_portfolio(StatsHeader, id) /\ Unlogged
    \/ \E data \in StatsBodies : import_portfolio(StatsHeader, data) /\ Unlogged
    \/ \E data \in StatsBodies :
          migrate_portfolios(StatsHeader, [portfolios |-> <<data>>]) /\ Unlogged
    \/ \E data \in StatsBodies :
          migrate_all_data(StatsHeader, [portfolios |-> <<data>>]) /\ Unlogged

SpecStats == InitRegistered /\ [][NextStats]_vars

\* SpecLogin: logins by username and by email with right and wrong
\* passwords, next to registrations; a username needs three characters and
\* nothing else, so it may be spelled like an email address
LoginHorizon == Days(2)

LoginBodies ==
    Optional(Optional({<<>>}, "username",
                      {"alice", " alice ", "a@x.com", "A@X.COM", "bob", "carol"}),
             "password", {"secret1", "secret2"})

NextLogin ==
    \/ Pass(Days(1), LoginHorizon)
    \/ \E data \in {[username |-> "carol", email |-> "c@x.com", password |-> "secret2"],
                    [username |-> "a@x.com", email |-> "c@x.com", password |-> "secret2"]} :
          register(data) /\ Log([op |-> "register", data |-> data])
    \/ \E data \in LoginBodies : login(data) /\ Log([op |-> "login", data |-> data])

SpecLogin == InitRegistered /\ [][NextLogin]_vars

\* SpecShare: portfolios created, imported with and without a share id of
\* their own, made public and private again, and read by share id
ShareBodies ==
    Optional(Optional({[id |-> "e1", name |-> "a"]}, "share_id", {"s2"}),
             "is_public", BOOLEAN)

NextShare ==
    \/ \E hdr \in UserHeaders :
          /\ create_portfolio(hdr, [name |-> "a"], "u1", "s1")
          /\ Log([op |-> "create_portfolio", hdr |-> hdr])
    \/ \E hdr \in UserHeaders, data \in ShareBodies :
          /\ import_portfolio(hdr, data)
          /\ Log([op |-> "import_portfolio", hdr |-> hdr])
    \/ \E hdr \in UserHeaders, id \in {"e1", "u1"},
          data \in {[is_public |-> TRUE], [is_public |-> FALSE], [name |-> "b"]} :
          /\ update_portfolio(hdr, id, data, "s3")
          /\ Log([op |-> "update_portfolio", hdr |-> hdr, id |-> id, data |-> data])
    \/ \E hdr \in UserHeaders, id \in {"e1", "u1"} :
          /\ delete_portfolio(hdr, id)
          /\ Log([op |-> "delete_portfolio", hdr |-> hdr, id |-> id])
    \/ \E share_id \in {"s1", "s2", "s3"} :
          /\ get_shared_portfolio(share_id)
          /\ Log([op |-> "get_shared_portfolio", share_id |-> share_id])

SpecShare == InitRegistered /\ [][NextShare]_vars

\* SpecSkip: migrate requests whose lists hold complete payloads, payloads
\* without id, payloads without the required field, and the same id twice
SkipPayloads(field) ==
    {[x \in {"id", field} |-> IF x = "id" THEN id ELSE "a"] : id \in Ids}
    \cup {[x \in {field} |-> "a"], [id |-> "e2"]}

SkipHeader == Bearer(generate_jwt_token(1, 0))

DataBodies ==
    {[properties |-> <<[address |-> "a"], [id |-> "e1", address |-> "a"]>>,
      portfolios |-> <<[id |-> "e1", name |-> "a"], [id |-> "e1", name |-> "a"]>>,
      reports |-> <<[id |-> "e1"]>>],
     [properties |-> <<[id |-> "e1", address |-> "a"], [id |-> "e1", address |-> "b"]>>],
     [portfolios |-> <<[name |-> "a"], [id |-> "e1", name |-> "a"]>>,
      reports |-> <<[id |-> "e1", title |-> "a"], [title |-> "a"]>>],
     [properties |-> <<[id |-> "e2", address |-> "a"]>>, reports |-> <<>>]}

PropertySkipBatches ==
    SeqsUpTo(SkipPayloads("address"), MaxBatch)
    \cup {<<[id |-> "e1", address |-> "a"], [id |-> "e1", address |-> "b"]>>,
          <<[id |-> "e1", address |-> "b"], [id |-> "e1", address |-> "a"]>>}

PortfolioSkipBatches ==
    {<<>>, <<[id |-> "e1", name |-> "a"]>>,
     <<[name |-> "a"], [id |-> "e1", name |-> "a"]>>,
     <<[id |-> "e1", name |-> "a"], [id |-> "e1"]>>,
     <<[id |-> "e1", name |-> "a"], [id |-> "e1", name |-> "b"]>>}

ReportSkipBatches ==
    {<<>>, <<[id |-> "e1", title |-> "a"]>>,
     <<[title |-> "a"], [id |-> "e1", title |-> "a"]>>,
     <<[id |-> "e1"], [id |-> "e1", title |-> "a"]>>,
     <<[id |-> "e1", title |-> "a"], [id |-> "e1", title |-> "a"]>>}

NextSkip ==
    \/ \E properties \in PropertySkipBatches :
          LET data == [properties |-> properties]
          IN  /\ migrate_properties(SkipHeader, data)
              /\ Log([op |-> "migrate_properties", hdr |-> SkipHeader, data |-> data])
    \/ LET hdr == Bearer(generate_jwt_token(2, 0))
           data == [properties |-> <<[id |-> "e1", address |-> "a"]>>]
       IN  /\ migrate_properties(hdr, data)
           /\ Log([op |-> "migrate_properties", hdr |-> hdr, data |-> data])
    \/ \E portfolios \in PortfolioSkipBatches :
          LET data == [portfolios |-> portfolios]
          IN  /\ migrate_portfolios(SkipHeader, data)
              /\ Log([op |-> "migrate_portfolios", hdr |-> SkipHeader, data |-> data])
    \/ \E reports \in ReportSkipBatches :
          LET data == [reports |-> reports]
          IN  /\ migrate_reports(SkipHeader, data)
              /\ Log([op |-> "migrate_reports", hdr |-> SkipHeader, data |-> data])
    \/ \E data \in DataBodies :
          /\ migrate_all_data(SkipHeader, data)
          /\ Log([op |-> "migrate_all_data", hdr |-> SkipHeader, data |-> data])

SpecSkip == InitRegistered /\ [][NextSkip]_vars

(***************************************************************************)
(* Claims                                                                  *)
(***************************************************************************)
\* the payloads of list all carry an id and an address
AllCarry(list, field) ==
    \A i \in 1..Len(list) :
        /\ "id" \in DOMAIN list[i] /\ list[i].id # Null
        /\ field \in DOMAIN list[i] /\ list[i][field] # Null

DistinctIds(list) ==
    \A i, j \in 1..Len(list) : i # j => list[i].id # list[j].id

IdsOf(list) == {list[i].id : i \in 1..Len(list)}

MigratedProperties ==
    /\ req.op = "migrate_properties"
    /\ resp.status \notin {400, 401}

\* C1: a batch of N property payloads that carry an id and an address, with
\* pairwise distinct ids none of which is stored, is imported whole
\* (imported_count = N, skipped_count = 0, N more rows); the identical request
\* repeated by the same account returns imported_count = 0, skipped_count = N
\* and leaves the property table as it is.
C1_ImportTwice ==
    [][LET list == req'.data.properties
           N == Len(list)
       IN  /\ ( /\ MigratedProperties'
                /\ AllCarry(list, "address") /\ DistinctIds(list)
                /\ \A r \in props : r.id \notin IdsOf(list) )
              => /\ resp'.status = 200
                 /\ resp'.imported_count = N /\ resp'.skipped_count = 0
                 /\ props \subseteq props'
                 /\ Cardinality(props') = Cardinality(props) + N
                 /\ IdsOf(list) \subseteq {r.id : r \in props'}
           /\ ( /\ MigratedProperties' /\ req' = req
                /\ AllCarry(list, "address") /\ DistinctIds(list)
                /\ resp.status = 200 /\ resp.imported_count = N )
              => /\ resp'.status = 200
                 /\ resp'.imported_count = 0 /\ resp'.skipped_count = N
                 /\ props' = props]_vars

\* a batch of MaxBatch valid payloads was answered imported 0, skipped MaxBatch,
\* all of it being stored for the caller: the state after the repeated request
C1_Witness ==
    /\ MigratedProperties /\ resp.status = 200
    /\ Len(req.data.properties) = MaxBatch
    /\ AllCarry(req.data.properties, "address") /\ DistinctIds(req.data.properties)
    /\ resp.imported_count = 0 /\ resp.skipped_count = MaxBatch
    /\ \A id \in IdsOf(req.data.properties) :
          FilterByIdAndUser(props, id, resp.user_id) # {}

\* the account a request's bearer token was issued to
Caller(hdr) ==
    IF "Authorization" \in DOMAIN hdr THEN hdr.Authorization.token.user_id ELSE NoUserId

OwnedByOther(tbl, id, uid) == {r \in tbl : r.id = id /\ r.user_id # uid}

\* C2: a GET, PUT or DELETE by id (GET and DELETE for reports) authenticated as
\* one account, on the id of a record another account owns, is answered 404
\* and leaves that record stored as it was.
C2_CrossOwner ==
    [][LET B == Caller(req'.hdr)
           Isolated(tbl, tbl2) ==
               (B # NoUserId /\ OwnedByOther(tbl, req'.id, B) # {})
               => /\ resp'.status = 404
                  /\ OwnedByOther(tbl, req'.id, B) \subseteq tbl2
       IN  /\ req'.op \in {"get_property", "update_property", "delete_property"}
              => Isolated(props, props')
           /\ req'.op \in {"get_portfolio", "update_portfolio", "delete_portfolio"}
              => Isolated(ports, ports')
           /\ req'.op \in {"get_report", "delete_report"}
              => Isolated(reps, reps')]_vars

\* an update of a property and a delete of a portfolio or report, each aimed at
\* another account's record, were answered 404 with the record still stored
C2_Witness ==
    /\ req.op \in {"update_property", "delete_portfolio", "delete_report"}
    /\ resp.status = 404
    /\ Caller(req.hdr) # NoUserId
    /\ OwnedByOther(CASE req.op = "update_property" -> props
                      [] req.op = "delete_portfolio" -> ports
                      [] OTHER -> reps, req.id, Caller(req.hdr)) # {}

IsImport(op) ==
    op \in {"migrate_properties", "migrate_portfolios", "migrate_reports",
            "import_portfolio", "migrate_all_data"}

\* C3: every row an import request inserts is stored under the account the
\* request's bearer token authenticated, whatever user_id its payload carried.
C3_OwnerBound ==
    [][IsImport(req'.op) =>
          /\ \A r \in props' \ props : r.user_id = Caller(req'.hdr)
          /\ \A r \in ports' \ ports : r.user_id = Caller(req'.hdr)
          /\ \A r \in reps' \ reps : r.user_id = Caller(req'.hdr)]_vars

\* a combined import whose three payloads all carried another account's
\* user_id was stored whole under the caller
C3_Witness ==
    /\ req.op = "migrate_all_data" /\ resp.status = 200
    /\ \A k \in {"properties", "portfolios", "reports"} :
          /\ Len(req.data[k]) = 1
          /\ "user_id" \in DOMAIN req.data[k][1]
          /\ req.data[k][1].user_id # Caller(req.hdr)
          /\ resp.results[k].imported = 1
    /\ \A tbl \in {props, ports, reps} :
          \E r \in tbl : r.id = req.data.properties[1].id /\ r.user_id = Caller(req.hdr)

\* the payload lists of a logged import request, per kind
ListOf(request, kind) ==
    IF request.op = "import_portfolio"
    THEN IF kind = "portfolios" THEN <<request.data>> ELSE <<>>
    ELSE Get(request.data, kind, <<>>)

\* payload i of the list is complete and new to account B, yet its row cannot
\* be inserted: its required column is NULL or another account holds its id
CannotPersist(list, i, tbl, field, B) ==
    /\ "id" \in DOMAIN list[i] /\ field \in DOMAIN list[i]
    /\ \A r \in tbl : ~(r.id = list[i].id /\ r.user_id = B)
    /\ \A j \in 1..(i - 1) : Get(list[j], "id", Null) # list[i].id
    /\ \/ list[i][field] = Null
       \/ \E r \in tbl : r.id = list[i].id /\ r.user_id # B

SomeCannotPersist(request, B) ==
    \/ \E i \in 1..Len(ListOf(request, "properties")) :
          CannotPersist(ListOf(request, "properties"), i, props, "address", B)
    \/ \E i \in 1..Len(ListOf(request, "portfolios")) :
          CannotPersist(ListOf(request, "portfolios"), i, ports, "name", B)
    \/ \E i \in 1..Len(ListOf(request, "reports")) :
          CannotPersist(ListOf(request, "reports"), i, reps, "title", B)

\* C4: an import request one of whose payloads cannot be persisted returns an
\* error, and a request that returns that error has stored none of its
\* payloads, of any kind.
C4_AllOrNothing ==
    [][IsImport(req'.op) =>
          /\ SomeCannotPersist(req', Caller(req'.hdr)) => resp'.status = 500
          /\ resp'.status = 500 => UNCHANGED <<props, ports, reps>>]_vars

\* a combined import failed on its report after a property and a portfolio
\* that could both be stored, and neither of them is stored
C4_Witness ==
    /\ req.op = "migrate_all_data" /\ resp.status = 500
    /\ \A k \in {"properties", "portfolios", "reports"} : Len(req.data[k]) = 1
    /\ req.data.properties[1].address # Null
    /\ req.data.portfolios[1].name # Null
    /\ req.data.reports[1].title = Null
    /\ \A r \in props : r.id # req.data.properties[1].id
    /\ \A r \in ports : r.id # req.data.portfolios[1].id
    /\ \A r \in reps : r.id # req.data.reports[1].id

\* C6: the outcome of an account's property import is the outcome the same
\* request has against that account's own records alone; an id stored under
\* another account makes it neither fail nor skip.
C6_OwnerIndependent ==
    [][MigratedProperties' =>
          LET B == Caller(req'.hdr)
              own == {r \in props : r.user_id = B}
              alone == ImportProperties(Begin(own), B, req'.data.properties, 1)
          IN  /\ resp'.status = 200 <=> ~alone.raised
              /\ resp'.status = 200 =>
                    /\ resp'.imported_count = alone.imported
                    /\ resp'.skipped_count = alone.skipped]_vars

\* C5: when two concurrent migrate requests of an account have both passed
\* the existence check for the same new id and one of them has stored it, the
\* other completes successfully and reports that id as skipped; the
\* uniqueness violation is no fatal error, and no duplicate row exists.
C5_LoserSkips ==
    [][\A s \in Slots :
          ( /\ inflight[s].pc = "loop" /\ inflight'[s].pc = "idle"
            /\ \E row \in inflight[s].pending :
                  FilterByIdAndUser(props, row.id, inflight[s].uid) # {} )
          => /\ resp'.status = 200
             /\ resp'.skipped_count >= 1
             /\ \A r1, r2 \in props' : r1.id = r2.id => r1 = r2]_vars

\* the trial is over at time t, as the specification defines it
Expired(self, t) == t > self.trial_end_date

\* C7: in every reachable state an account's stored payment_required is true
\* exactly when its trial has expired and it has no active paid subscription.
C7_PaymentRequiredIff ==
    \A u \in DOMAIN users :
        users[u].payment_required
            <=> (Expired(users[u], now) /\ ~has_paid_subscription(users[u]))

Calculated == resp.op = "calculate_trial_status"

\* C8: calculate_trial_status reports is_expired = false at every time up to
\* and including trial_end, and never a negative days_remaining or
\* hours_remaining.
C8_NotExpiredUpToEnd ==
    Calculated =>
        /\ now <= users[resp.user_id].trial_end_date => ~resp.trial_status.is_expired
        /\ resp.trial_status.days_remaining >= 0
        /\ resp.trial_status.hours_remaining >= 0

\* C9: after trial_end, for an account that is not both active and on a plan
\* other than trial and free, calculate_trial_status reports
\* payment_required = true and can_access = false, whatever else is stored.
C9_ExpiredUnpaidLocked ==
    Calculated =>
        LET self == users[resp.user_id]
        IN  ( /\ now > self.trial_end_date
              /\ ~( /\ self.subscription_status = "active"
                    /\ self.subscription_plan \notin {"trial", "free"} ) )
            => /\ resp.trial_status.payment_required
               /\ ~resp.trial_status.can_access

\* the status was computed after trial_end for an account still flagged
\* trial_active, its starter subscription cancelled, payment_required stored
\* false
C9_Witness ==
    /\ Calculated
    /\ now > users[resp.user_id].trial_end_date
    /\ users[resp.user_id].trial_active
    /\ ~users[resp.user_id].payment_required
    /\ users[resp.user_id].subscription_status = "cancelled"
    /\ users[resp.user_id].subscription_plan = "starter"
    /\ resp.trial_status.payment_required
    /\ ~resp.trial_status.can_access

\* C10: verify_jwt_token returns an account only for a token signed with the
\* secret, not yet expired, and then the stored account the token names; for
\* a bad signature, an expired token, a token without a user id or the id of
\* no stored account it returns none.
C10_FailsClosed ==
    [][(req'.op = "verify_jwt_token" /\ now' = now) =>
          LET token == req'.token
          IN  /\ resp'.user_id # NoUserId =>
                    /\ token.key = SECRET_KEY
                    /\ now <= token.exp
                    /\ "user_id" \in DOMAIN token
                    /\ resp'.user_id = token.user_id
                    /\ token.user_id \in DOMAIN users
              /\ ( \/ token.key # SECRET_KEY
                   \/ now > token.exp
                   \/ "user_id" \notin DOMAIN token
                   \/ Get(token, "user_id", NoUserId) \notin DOMAIN users )
                 => resp'.user_id = NoUserId]_vars

\* a genuine token was accepted one tick before its expiry
C10_Witness ==
    /\ req.op = "verify_jwt_token"
    /\ req.token.key = SECRET_KEY
    /\ now = req.token.exp - 1
    /\ resp.status = 200
    /\ resp.user_id = req.token.user_id

\* the header carries no token that must be accepted at time t: it is
\* missing, not a Bearer header, or its token is forged, expired, without a
\* user id or names no stored account
NotAuthenticated(hdr, t) ==
    \/ "Authorization" \notin DOMAIN hdr
    \/ hdr.Authorization.scheme # "Bearer"
    \/ hdr.Authorization.token.key # SECRET_KEY
    \/ t > hdr.Authorization.token.exp
    \/ "user_id" \notin DOMAIN hdr.Authorization.token
    \/ hdr.Authorization.token.user_id \notin DOMAIN users

\* C11: a request to a mutating endpoint without an Authorization header,
\* with a header that is not a Bearer header, or with an invalid or expired
\* token is answered 401 and changes no stored state.
C11_Unauthorized ==
    [][( /\ req'.op \in MutatingOps /\ now' = now
         /\ NotAuthenticated(req'.hdr, now) )
       => /\ resp'.status = 401
          /\ UNCHANGED <<users, props, ports, reps>>]_vars

\* a delete of a stored property came with its owner's expired token and was
\* answered 401, the property still stored
C11_Witness ==
    /\ req.op = "delete_property" /\ resp.status = 401
    /\ "Authorization" \in DOMAIN req.hdr
    /\ req.hdr.Authorization.scheme = "Bearer"
    /\ req.hdr.Authorization.token.key = SECRET_KEY
    /\ "user_id" \in DOMAIN req.hdr.Authorization.token
    /\ now > req.hdr.Authorization.token.exp
    /\ FilterByIdAndUser(props, "e1", req.hdr.Authorization.token.user_id) # {}

\* the rank of a plan: starter < professional < enterprise, any other below
Rank(plan) ==
    IF plan = "starter" THEN 1 ELSE IF plan = "professional" THEN 2
    ELSE IF plan = "enterprise" THEN 3 ELSE 0

\* C12: an authenticated upgrade to a plan of strictly higher rank than the
\* current one is answered with success and the new plan is stored; an upgrade
\* to a plan of the same or a lower rank is answered 400 and the stored plan
\* stays.
C12_StrictUpgrade ==
    [][( /\ req'.op = "upgrade_subscription"
         /\ Caller(req'.hdr) # NoUserId
         /\ "plan" \in DOMAIN req'.data /\ req'.data.plan \in valid_plans )
       => LET uid == Caller(req'.hdr)
          IN  IF Rank(req'.data.plan) > Rank(users[uid].subscription_plan)
              THEN /\ resp'.status = 200
                   /\ users'[uid].subscription_plan = req'.data.plan
              ELSE /\ resp'.status = 400
                   /\ users'[uid].subscription_plan = users[uid].subscription_plan]_vars

\* C13: a request answered with an error status (4xx or 5xx) leaves the
\* stored state as it was before the request.
C13_ErrorPersistsNothing ==
    [][(req'.op # "none" /\ resp'.status >= 400)
       => UNCHANGED <<users, props, ports, reps>>]_vars

\* the properties of all packages in one list, and the sum of a list
RECURSIVE AllProperties(_)
AllProperties(packages) ==
    IF packages = <<>> THEN <<>>
    ELSE (IF "properties" \in DOMAIN Head(packages) THEN Head(packages).properties ELSE <<>>)
         \o AllProperties(Tail(packages))

RECURSIVE Total(_)
Total(values) == IF values = <<>> THEN 0 ELSE Head(values) + Total(Tail(values))

HasRoi(property) == "roi" \in DOMAIN property /\ property.roi # NullRoi

\* the statistics of a portfolio are those of its deal packages: the sum of
\* totalValue, the number of properties, and the mean m of the roi values
\* that are not null (m * count = sum), each 0 when there is nothing to add
StatsMatch(p) ==
    LET packages == deal_packages(p)
        properties == AllProperties(packages)
        rated == SelectSeq(properties, HasRoi)
        sum == Total([j \in 1..Len(rated) |-> rated[j].roi])
    IN  /\ p.total_value =
              Total([i \in 1..Len(packages) |->
                        IF "totalValue" \in DOMAIN packages[i]
                        THEN packages[i].totalValue ELSE 0])
        /\ p.total_properties = Len(properties)
        /\ IF Len(rated) = 0 THEN p.avg_roi.num = 0
           ELSE p.avg_roi.num * Len(rated) = sum * p.avg_roi.den
        /\ p.avg_roi.den > 0

\* C14: every stored portfolio's total_value, total_properties and avg_roi
\* are the statistics of its current deal packages; the packages
\* [{totalValue: 100, properties: [{roi: 5}, {roi: 15}]}] give 100, 2 and 10.
C14_StatsMatchPackages ==
    /\ \A p \in ports : StatsMatch(p)
    /\ \A p \in ports :
          deal_packages(p) = Example
          => /\ p.total_value = 100 /\ p.total_properties = 2
             /\ p.avg_roi = [num |-> 10, den |-> 1]

\* a portfolio updated to two packages, one of them with a null roi, a
\* property without roi and a roi of 0, stored together with one that holds
\* the packages of the example
C14_Witness ==
    /\ resp.op = "update_portfolio" /\ resp.status = 200
    /\ Len(deal_packages(resp.portfolio)) = 2
    /\ resp.portfolio.total_properties = 5
    /\ resp.portfolio.avg_roi = [num |-> 20, den |-> 3]
    /\ resp.portfolio \in ports
    /\ \E p \in ports :
          /\ p.id # resp.portfolio.id
          /\ p.total_value = 100 /\ p.total_properties = 2
          /\ p.avg_roi = [num |-> 10, den |-> 1]

\* no two stored accounts share a username or an email
UniqueAccounts ==
    \A a, b \in DOMAIN users :
       a # b => users[a].username # users[b].username /\ users[a].email # users[b].email

\* a registration body that passes the validations
WellFormed(data) ==
    /\ {"username", "email", "password"} \subseteq DOMAIN data
    /\ StrLen(Strip(data.username)) >= 3
    /\ validate_email(Lower(Strip(data.email)))
    /\ validate_password(data.password)

\* the body names the username or the lower-cased email of a stored account
Duplicate(data) ==
    \E u \in DOMAIN users :
       \/ users[u].username = Strip(data.username)
       \/ users[u].email = Lower(Strip(data.email))

\* C15: under interleaved register and profile-update requests no two
\* stored accounts share a username or an email, and a registration that is
\* answered while an account with its username or lower-cased email is
\* stored is answered 409 and creates no account.
C15_UniqueAnd409 ==
    /\ []UniqueAccounts
    /\ [][\A s \in Slots :
             ( /\ inflight[s].pc \in {"register", "register_commit"}
               /\ inflight'[s].pc = "idle"
               /\ WellFormed(inflight[s].data) /\ Duplicate(inflight[s].data) )
             => resp'.status = 409 /\ users' = users]_vars

\* the accounts a login body names by username or by email
Named(data) ==
    {u \in DOMAIN users :
        "username" \in DOMAIN data
        /\ (users[u].username = data.username \/ users[u].email = data.username)}

\* C16: a login that names a registered account by its username or email is
\* answered 401 and changes nothing if the password is not that account's;
\* with the account's password it is answered 200 with a token that carries
\* the account's id, and changes nothing but that account's last_login.
C16_LoginFrame ==
    [][(req'.op = "login" /\ "password" \in DOMAIN req'.data)
       => \A u \in Named(req'.data) :
             IF check_password_hash(users[u].password_hash, req'.data.password)
             THEN /\ resp'.status = 200
                  /\ resp'.token.user_id = u
                  /\ \E t \in 0..LoginHorizon :
                        users' = [users EXCEPT ![u].last_login = t]
             ELSE resp'.status = 401 /\ users' = users]_vars

\* C17: for an account that never started a subscription, at a time after
\* trial_end calculate_trial_status reports is_expired, and update_trial_status
\* leaves subscription_status = trial_expired, trial_days_used = 7 -
\* days_remaining = 7, payment_required = true and last_trial_check = now.
C17_ExpiredAfterEnd ==
    [][( /\ now' = now /\ resp'.op = "update_trial_status"
         /\ users[resp'.user_id].subscription_start_date = NoDate
         /\ now > users[resp'.user_id].trial_end_date )
       => LET u == resp'.user_id
          IN  /\ calculate_trial_status(users[u], now).is_expired
              /\ resp'.trial_status.is_expired
              /\ users'[u].subscription_status = "trial_expired"
              /\ users'[u].trial_days_used = TrialDays - resp'.trial_status.days_remaining
              /\ users'[u].trial_days_used = 7
              /\ users'[u].payment_required
              /\ users'[u].last_trial_check = now]_vars

\* update_trial_status has run eight days after the registration of an
\* account that never subscribed
C17_Witness ==
    /\ resp.op = "update_trial_status"
    /\ users[resp.user_id].subscription_start_date = NoDate
    /\ now = users[resp.user_id].trial_start_date + Days(8)
    /\ users[resp.user_id].last_trial_check = now
    /\ users[resp.user_id].subscription_status = "trial_expired"
    /\ users[resp.user_id].trial_days_used = 7

\* C18: calculate_trial_status changes no stored field and gives the same
\* result when computed again on the same row at the same time; and
\* update_trial_status invoked a second time at the same time returns the
\* status the first invocation returned and leaves the row the first left.
C18_Repeatable ==
    [][( /\ now' = now
         /\ resp'.op \in {"calculate_trial_status", "update_trial_status"} )
       => LET u == resp'.user_id
          IN  IF resp'.op = "calculate_trial_status"
              THEN /\ users' = users
                   /\ calculate_trial_status(users'[u], now) = resp'.trial_status
              ELSE /\ update_trial_status(users'[u], now) = users'[u]
                   /\ calculate_trial_status(users'[u], now) = resp'.trial_status]_vars

\* C19: once an account has started a subscription (its subscription start
\* date is set), calculate_trial_status never reports is_on_trial again and
\* subscription_status is never trial_active again, whatever cancel, create,
\* upgrade and update_trial_status operations follow.
C19_NoRetrial ==
    \A u \in DOMAIN users :
       users[u].subscription_start_date # NoDate
       => /\ ~calculate_trial_status(users[u], now).is_on_trial
          /\ users[u].subscription_status # "trial_active"

\* C20: User.start_subscription(plan) and a POST /subscription/create
\* answered with success leave the account with subscription_plan = the
\* requested plan, subscription_status = active, the subscription start date
\* set, the next billing date 30 days after it, and trial_active and
\* payment_required false.
C20_StartEffects ==
    [][( /\ req'.op \in {"start_subscription", "create_subscription"}
         /\ resp'.op = req'.op /\ resp'.status = 200 )
       => LET account == users'[resp'.user_id]
          IN  /\ account.subscription_plan = req'.data.plan
              /\ account.subscription_status = "active"
              /\ account.subscription_start_date = now
              /\ account.next_billing_date
                    = account.subscription_start_date + Days(BillingDays)
              /\ ~account.trial_active
              /\ ~account.payment_required]_vars

\* C21: User.cancel_subscription and a POST /subscription/cancel answered
\* with success leave the account with subscription_plan = free,
\* subscription_status = cancelled and payment_required = false.
C21_CancelEffects ==
    [][( /\ req'.op \in {"User_cancel_subscription", "cancel_subscription"}
         /\ resp'.op = "cancel_subscription" /\ resp'.status = 200 )
       => LET account == users'[resp'.user_id]
          IN  /\ account.subscription_plan = "free"
              /\ account.subscription_status = "cancelled"
              /\ ~account.payment_required]_vars

\* C22: GET /portfolios/share/:share_id, sent without a token, returns a
\* portfolio only if it is stored under that share id with is_public true,
\* and answers 404 while the portfolio of that share id is not public; a
\* portfolio created through POST /portfolios is stored with is_public false,
\* and a PUT with is_public false stores it as not public.
C22_SharedOnlyIfPublic ==
    [][/\ req'.op = "get_shared_portfolio"
          => /\ UNCHANGED ports
             /\ resp'.status \in {200, 404}
             /\ resp'.status = 200
                   => /\ resp'.portfolio \in ports
                      /\ resp'.portfolio.share_id = req'.share_id
                      /\ resp'.portfolio.is_public = TRUE
             /\ (\E p \in ports : p.share_id = req'.share_id /\ ~p.is_public)
                   => resp'.status = 404
       /\ (req'.op = "create_portfolio" /\ resp'.status = 201)
          => resp'.portfolio \in ports' /\ ~resp'.portfolio.is_public
       /\ (req'.op = "update_portfolio" /\ resp'.status = 200
                                        /\ "is_public" \in DOMAIN req'.data)
          => resp'.portfolio \in ports'
             /\ resp'.portfolio.is_public = req'.data.is_public]_vars

\* the share id of a portfolio created through POST /portfolios, stored as
\* not public, was read and answered 404
C22_Witness ==
    /\ req.op = "get_shared_portfolio" /\ resp.status = 404
    /\ \E p \in ports : p.id = "u1" /\ p.share_id = req.share_id /\ ~p.is_public

\* the kinds of a migrate request: the key of the list, the required field
Kinds == {"properties", "portfolios", "reports"}

RequiredField(kind) ==
    IF kind = "properties" THEN "address" ELSE IF kind = "portfolios" THEN "name" ELSE "title"

Lacking(payload, kind) ==
    "id" \notin DOMAIN payload \/ RequiredField(kind) \notin DOMAIN payload

\* the list a request submits for a kind (none: the empty list)
Submitted(request, kind) ==
    IF kind \in DOMAIN request.data THEN request.data[kind] ELSE <<>>

\* the counts a response reports for a kind
Counts(request, response, kind) ==
    IF request.op = "migrate_all_data" THEN response.results[kind]
    ELSE IF kind \in DOMAIN request.data
    THEN [imported |-> response.imported_count, skipped |-> response.skipped_count]
    ELSE [imported |-> 0, skipped |-> 0]

MigrateOps == {"migrate_properties", "migrate_portfolios", "migrate_reports",
               "migrate_all_data"}

TableOf(kind, p, f, r) == IF kind = "properties" THEN p ELSE IF kind = "portfolios" THEN f ELSE r

\* a complete payload of the request names an id another account holds
Conflicting(request) ==
    \E kind \in Kinds :
       \E i \in 1..Len(Submitted(request, kind)) :
          /\ ~Lacking(Submitted(request, kind)[i], kind)
          /\ OwnedByOther(TableOf(kind, props, ports, reps),
                          Submitted(request, kind)[i].id, Caller(request.hdr)) # {}

\* C23: in a migrate request every payload without id or without its
\* required field is counted as skipped and stores nothing, the complete
\* payloads are stored all the same (the request fails only if a complete
\* payload cannot be stored), and on success imported + skipped is the
\* length of the list of each kind.
C23_SkipAndCount ==
    [][(req'.op \in MigrateOps /\ req'.data # <<>> /\ Caller(req'.hdr) # NoUserId)
       => /\ ~Conflicting(req') => resp'.status = 200
          /\ resp'.status = 200 =>
                \A kind \in Kinds :
                   LET list == Submitted(req', kind)
                       counts == Counts(req', resp', kind)
                       before == TableOf(kind, props, ports, reps)
                       after == TableOf(kind, props', ports', reps')
                       lacking == {i \in 1..Len(list) : Lacking(list[i], kind)}
                   IN  /\ counts.imported + counts.skipped = Len(list)
                       /\ counts.skipped >= Cardinality(lacking)
                       /\ Cardinality(after \ before) = counts.imported
                       /\ \A row \in after \ before :
                             \E i \in 1..Len(list) \ lacking : list[i].id = row.id
                       /\ \A i \in 1..Len(list) \ lacking :
                             FilterByIdAndUser(after, list[i].id, Caller(req'.hdr)) # {}]_vars

\* a list of a payload without id and a complete one was answered imported 1,
\* skipped 1, the complete one stored
C23_Witness ==
    /\ req.op = "migrate_properties" /\ resp.status = 200
    /\ req.data.properties = <<[address |-> "a"], [id |-> "e2", address |-> "a"]>>
    /\ resp.imported_count = 1 /\ resp.skipped_count = 1
    /\ FilterByIdAndUser(props, "e2", 1) # {}

\* C24: GET /subscription/status with a valid bearer token answers 200 with
\* the account's subscription_plan, subscription_status and computed trial
\* status (can_access, payment_required) whatever state the account is in,
\* and changes no stored state
C24_StatusAlways200 ==
    [][req'.op = "get_subscription_status" /\ resp'.op = "get_subscription_status"
       /\ now' = now /\ get_user_from_token(req'.hdr) # NoUserId
       => /\ resp'.status = 200
          /\ {"subscription_plan", "subscription_status", "trial_status"}
                \subseteq DOMAIN resp'
          /\ users' = users /\ props' = props /\ ports' = ports /\ reps' = reps]_vars

\* C25: update_trial_status changes subscription_status only for accounts in
\* the trial part of the lifecycle: invoked at any time on an account whose
\* status is active with a paid plan, or cancelled, it leaves
\* subscription_status as it was
C25_StatusKeptOutsideTrial ==
    [][req'.op = "update_trial_status" /\ resp'.op = "update_trial_status"
       /\ now' = now
       => LET u == resp'.user_id
          IN  ( \/ users[u].subscription_status = "cancelled"
                \/ /\ users[u].subscription_status = "active"
                   /\ users[u].subscription_plan \notin {"trial", "free"} )
              => users'[u].subscription_status = users[u].subscription_status]_vars

\* C26: a login identifier matches at most one account: no two distinct
\* stored accounts are such that the email of one equals the username of
\* the other
C26_IdentifierNamesOne ==
    \A a, b \in DOMAIN users :
       a # b => users[a].email # users[b].username

\* C27: while an account's subscription stays active, the rank of its plan
\* never decreases under POST /subscription/create, /subscription/upgrade and
\* /subscription/verify-payment
C27_RankNeverDecreases ==
    [][req'.op \in {"create_subscription", "upgrade_subscription", "verify_payment"}
       => \A u \in DOMAIN users :
             ( /\ users[u].subscription_status = "active"
               /\ users'[u].subscription_status = "active" )
             => Rank(users'[u].subscription_plan) >= Rank(users[u].subscription_plan)]_vars

\* C28: POST /subscription/upgrade changes at most subscription_plan of the
\* stored accounts, never subscription_status or trial_active; an account
\* whose computed can_access (or has_paid_subscription) is false before an
\* upgrade has it false after the upgrade, at the same time
C28_UpgradeFrame ==
    [][resp'.op = "upgrade_subscription" /\ now' = now
       => /\ DOMAIN users' = DOMAIN users
          /\ props' = props /\ ports' = ports /\ reps' = reps
          /\ \A u \in DOMAIN users :
                LET before == calculate_trial_status(users[u], now)
                    after == calculate_trial_status(users'[u], now)
                IN  /\ [users'[u] EXCEPT !.subscription_plan = users[u].subscription_plan]
                          = users[u]
                    /\ ~before.can_access => ~after.can_access
                    /\ ~before.has_paid_subscription => ~after.has_paid_subscription]_vars

\* an account whose trial has expired upgraded to starter: the plan is stored
\* and the account still has no access
C28_Witness ==
    /\ resp.op = "upgrade_subscription" /\ resp.status = 500
    /\ users[resp.user_id].subscription_plan = "starter"
    /\ users[resp.user_id].subscription_status = "trial_expired"
    /\ ~calculate_trial_status(users[resp.user_id], now).can_access

\* the row from_dict builds of a payload of a kind
FromDict(kind, payload) ==
    IF kind = "properties" THEN Property_from_dict(payload)
    ELSE IF kind = "portfolios" THEN Portfolio_from_dict(payload)
    ELSE Report_from_dict(payload)

\* C29: when the list of one migrate request holds a complete payload whose
\* id is not stored yet more than once, the request succeeds, exactly one
\* record of that id is stored afterwards, built from the first of these
\* payloads, and the counts take the first as imported and every later one
\* as skipped: imported is the number of distinct new ids, skipped the rest
\* of the list
C29_RepeatedIdOnce ==
    [][( /\ req'.op \in MigrateOps /\ req'.data # <<>>
         /\ Caller(req'.hdr) # NoUserId /\ ~Conflicting(req') )
       => \A kind \in Kinds :
             LET list == Submitted(req', kind)
                 uid == Caller(req'.hdr)
                 before == TableOf(kind, props, ports, reps)
                 after == TableOf(kind, props', ports', reps')
                 valid == {i \in 1..Len(list) : ~Lacking(list[i], kind)}
                 repeated == {i \in valid :
                                /\ \E j \in valid : j # i /\ list[j].id = list[i].id
                                /\ \A r \in before : r.id # list[i].id}
                 fresh == {list[i].id : i \in {j \in valid :
                                 FilterByIdAndUser(before, list[j].id, uid) = {}}}
             IN  repeated # {} =>
                    /\ resp'.status = 200
                    /\ Counts(req', resp', kind).imported = Cardinality(fresh)
                    /\ Counts(req', resp', kind).skipped = Len(list) - Cardinality(fresh)
                    /\ \A i \in repeated :
                          LET first == CHOOSE j \in valid :
                                          /\ list[j].id = list[i].id
                                          /\ \A k \in valid :
                                                list[k].id = list[i].id => j <= k
                          IN  {r \in after : r.id = list[i].id}
                                 = {WithOwner(FromDict(kind, list[first]), uid)}]_vars

\* a list of two payloads of the same new id with different addresses was
\* answered imported 1, skipped 1, and the one record has the first address
C29_Witness ==
    /\ req.op = "migrate_properties" /\ resp.status = 200
    /\ req.data.properties = <<[id |-> "e1", address |-> "a"], [id |-> "e1", address |-> "b"]>>
    /\ resp.imported_count = 1 /\ resp.skipped_count = 1
    /\ \E r \in props : r.id = "e1" /\ r.address = "a" /\ r.user_id = Caller(req.hdr)
    /\ Cardinality({r \in props : r.id = "e1"}) = 1

\* every stored account's trial ends 7 days after it started
TrialWindow ==
    \A u \in DOMAIN users :
       users[u].trial_end_date = users[u].trial_start_date + Days(TrialDays)

\* a step leaves the trial dates of every stored account as they were
TrialWindowKept ==
    \A u \in DOMAIN users :
       /\ users'[u].trial_start_date = users[u].trial_start_date
       /\ users'[u].trial_end_date = users[u].trial_end_date

\* C30: in every reachable state an account's trial_end is its trial_start
\* plus 7 days, and no operation after the registration (login, profile
\* update, update_trial_status, subscription start, cancel, create, upgrade,
\* import) changes trial_start or trial_end
C30_TrialWindowFixed ==
    /\ []TrialWindow
    /\ [][TrialWindowKept]_vars


====
